---- MODULE Spec2Model ----
(***************************************************************************)
(* Order construction of the CLOB client: the decimal rounding pipeline of *)
(* OrderBuilder (orders.rs), the market-price estimator, the price-range   *)
(* guard and the create_order / create_market_order calls of ClobClient    *)
(* (lib.rs).                                                               *)
(*                                                                         *)
(* rust_decimal's Decimal is a sign, an unsigned mantissa and a scale      *)
(* (value = mantissa / 10^scale).  Mantissas are kept here as little-      *)
(* endian sequences of decimal digits so that intermediate values such as  *)
(* 1e6 * amount or a 28-digit quotient are computed exactly.               *)
(*                                                                         *)
(* A record stands for a struct; the order in which a record's fields are  *)
(* written carries no meaning and need not be the struct's declaration     *)
(* order.                                                                  *)
(***************************************************************************)
EXTENDS Integers, Sequences, FiniteSets, TLC

(***************************************************************************)
(* Unsigned mantissas: little-endian digit sequences, no leading zeros,    *)
(* zero is << >>.                                                          *)
(***************************************************************************)
RECURSIVE NatDigits(_)
NatDigits(n) ==
    IF n = 0 THEN << >> ELSE <<n % 10>> \o NatDigits(n \div 10)

RECURSIVE Strip(_)
Strip(d) ==
    IF d = << >> THEN d
    ELSE IF d[Len(d)] = 0 THEN Strip(SubSeq(d, 1, Len(d) - 1)) ELSE d

RECURSIVE AddC(_, _, _)
AddC(a, b, c) ==
    IF a = << >> /\ b = << >> THEN (IF c = 0 THEN << >> ELSE <<c>>)
    ELSE LET x == IF a = << >> THEN 0 ELSE Head(a)
             y == IF b = << >> THEN 0 ELSE Head(b)
             t == x + y + c
         IN  <<t % 10>> \o AddC(IF a = << >> THEN a ELSE Tail(a),
                                IF b = << >> THEN b ELSE Tail(b), t \div 10)

NatAdd(a, b) == AddC(a, b, 0)

\* a - b for a >= b
RECURSIVE SubB(_, _, _)
SubB(a, b, c) ==
    IF a = << >> THEN << >>
    ELSE LET y == IF b = << >> THEN 0 ELSE Head(b)
             t == Head(a) - y - c
         IN  <<IF t < 0 THEN t + 10 ELSE t>>
               \o SubB(Tail(a), IF b = << >> THEN b ELSE Tail(b),
                       IF t < 0 THEN 1 ELSE 0)

NatSub(a, b) == Strip(SubB(a, b, 0))

\* -1, 0, 1 as a < b, a = b, a > b; compares from the most significant digit
RECURSIVE CmpFrom(_, _, _)
CmpFrom(a, b, i) ==
    IF i = 0 THEN 0
    ELSE IF a[i] < b[i] THEN -1
    ELSE IF a[i] > b[i] THEN 1
    ELSE CmpFrom(a, b, i - 1)

NatCmp(a, b) ==
    IF Len(a) < Len(b) THEN -1
    ELSE IF Len(a) > Len(b) THEN 1
    ELSE CmpFrom(a, b, Len(a))

RECURSIVE MulDigit(_, _, _)
MulDigit(a, k, c) ==
    IF a = << >> THEN (IF c = 0 THEN << >> ELSE <<c>>)
    ELSE LET t == Head(a) * k + c
         IN  <<t % 10>> \o MulDigit(Tail(a), k, t \div 10)

RECURSIVE NatMul(_, _)
NatMul(a, b) ==
    IF a = << >> \/ b = << >> THEN << >>
    ELSE Strip(NatAdd(MulDigit(a, Head(b), 0), <<0>> \o NatMul(a, Tail(b))))

\* a * 10^k
Shift10(a, k) ==
    IF a = << >> THEN a ELSE [i \in 1..k |-> 0] \o a

\* floor(a / 10^k) and the k digits dropped (little-endian, padded)
DropLow(a, k) ==
    IF k >= Len(a) THEN << >> ELSE SubSeq(a, k + 1, Len(a))

LowPart(a, k) ==
    Strip(IF k >= Len(a) THEN a ELSE SubSeq(a, 1, k))

\* how often b goes into r, for r < 10 * b
RECURSIVE Times(_, _)
Times(r, b) ==
    IF NatCmp(r, b) < 0 THEN 0 ELSE 1 + Times(NatSub(r, b), b)

RECURSIVE SubTimes(_, _, _)
SubTimes(r, b, n) ==
    IF n = 0 THEN r ELSE SubTimes(NatSub(r, b), b, n - 1)

\* long division of a by b # 0, from digit i of a downward with remainder r
RECURSIVE DivFrom(_, _, _, _)
DivFrom(a, b, i, r) ==
    IF i = 0 THEN [r |-> r, q |-> << >>]
    ELSE IF r = << >> /\ a[i] = 0
    THEN LET rest == DivFrom(a, b, i - 1, r)
         IN  [r |-> rest.r, q |-> rest.q \o <<0>>]
    ELSE LET r1   == Strip(<<a[i]>> \o r)
             d    == Times(r1, b)
             rest == DivFrom(a, b, i - 1, SubTimes(r1, b, d))
         IN  [r |-> rest.r, q |-> rest.q \o <<d>>]

NatDivMod(a, b) ==
    LET x == DivFrom(a, b, Len(a), << >>)
    IN  [r |-> x.r, q |-> Strip(x.q)]

(***************************************************************************)
(* rust_decimal::Decimal: [neg, m, s] is (-1)^neg * m / 10^s.              *)
(***************************************************************************)
Abs(n) == IF n < 0 THEN -n ELSE n

\* Decimal::from_str of the literal n / 10^s written with s fractional digits
Dec(n, s) == [s |-> s, neg |-> n < 0, m |-> NatDigits(Abs(n))]

ZERO == Dec(0, 0)

ONE == Dec(1, 0)

is_zero(d) == d.m = << >>

Max(a, b) == IF a >= b THEN a ELSE b

\* mantissa of d at scale s >= d.s
Rescale(d, s) == Shift10(d.m, s - d.s)

Sign(d) == IF is_zero(d) THEN 0 ELSE IF d.neg THEN -1 ELSE 1

\* Ord for Decimal compares values, whatever the scales: -1, 0, 1
DecCmp(a, b) ==
    IF Sign(a) # Sign(b) THEN (IF Sign(a) < Sign(b) THEN -1 ELSE 1)
    ELSE LET s == Max(a.s, b.s)
         IN  Sign(a) * NatCmp(Rescale(a, s), Rescale(b, s))

DecNeg(d) == [d EXCEPT !.neg = ~d.neg]

\* Add: a zero operand returns the other one; otherwise the scales are aligned
DecAdd(a, b) ==
    IF is_zero(a) THEN b
    ELSE IF is_zero(b) THEN a
    ELSE LET s  == Max(a.s, b.s)
             x  == Rescale(a, s)
             y  == Rescale(b, s)
         IN  IF a.neg = b.neg THEN [s |-> s, neg |-> a.neg, m |-> NatAdd(x, y)]
             ELSE IF NatCmp(x, y) >= 0
                  THEN [s |-> s, neg |-> a.neg, m |-> NatSub(x, y)]
                  ELSE [s |-> s, neg |-> b.neg, m |-> NatSub(y, x)]

DecSub(a, b) ==
    IF is_zero(b) THEN a ELSE DecAdd(a, DecNeg(b))

\* Mul: a zero operand gives Decimal::ZERO; otherwise mantissas multiply and
\* scales add (every product of the model fits 96 bits and 28 places)
DecMul(a, b) ==
    IF is_zero(a) \/ is_zero(b) THEN ZERO
    ELSE [s |-> a.s + b.s, neg |-> a.neg # b.neg, m |-> NatMul(a.m, b.m)]

\* the most decimal places a Decimal holds
MAX_PRECISION == 28

Reverse(t) == [i \in 1..Len(t) |-> t[Len(t) + 1 - i]]

\* (2^96 - 1) \div 10: a mantissa up to here can take one more digit
MAX_MANTISSA_DIV_10 ==
    Reverse(<<7,9,2,2,8,1,6,2,5,1,4,2,6,4,3,3,7,5,9,3,5,4,3,9,5,0,3,3>>)

\* Div: the quotient is extended digit by digit while a remainder is left and
\* the mantissa has room, and the last digit is rounded half to even
RECURSIVE DivExtend(_, _, _, _)
DivExtend(q, r, b, s) ==
    IF r = << >>
    THEN (IF s >= 0 THEN [s |-> s, m |-> q] ELSE [s |-> 0, m |-> Shift10(q, -s)])
    ELSE IF s >= MAX_PRECISION \/ NatCmp(q, MAX_MANTISSA_DIV_10) > 0
    THEN LET c  == NatCmp(NatAdd(r, r), b)
             up == c > 0 \/ (c = 0 /\ q # << >> /\ Head(q) % 2 = 1)
         IN  [s |-> s, m |-> IF up THEN NatAdd(q, <<1>>) ELSE q]
    ELSE LET x == NatDivMod(Shift10(r, 1), b)
         IN  DivExtend(NatAdd(Shift10(q, 1), x.q), x.r, b, s + 1)

\* Div for a divisor that is not zero (a zero divisor panics: see the callers)
DecDiv(a, b) ==
    IF is_zero(a) THEN ZERO
    ELSE LET x == NatDivMod(a.m, b.m)
             y == DivExtend(x.q, x.r, b.m, a.s - b.s)
         IN  [s |-> y.s, neg |-> a.neg # b.neg, m |-> y.m]

\* round_dp_with_strategy: unchanged when the scale is already <= dp
round_dp_with_strategy(d, dp, strategy) ==
    IF d.s <= dp THEN d
    ELSE IF is_zero(d) THEN [d EXCEPT !.s = dp]
    ELSE LET k    == d.s - dp
             q    == DropLow(d.m, k)
             low  == LowPart(d.m, k)
             half == Shift10(<<5>>, k - 1)
             up   == CASE strategy = "ToZero" -> FALSE
                      [] strategy = "AwayFromZero" -> low # << >>
                      [] strategy = "MidpointTowardZero" -> NatCmp(low, half) > 0
         IN  [s |-> dp, neg |-> d.neg, m |-> IF up THEN NatAdd(q, <<1>>) ELSE q]

(***************************************************************************)
(* orders.rs: the rounding table and the amount pipeline of OrderBuilder.  *)
(***************************************************************************)
BUY == "BUY"

SELL == "SELL"

\* the outcome of an expression that panics (expect / index / division by
\* zero), and of one that yields v
PANIC == [panic |-> TRUE]

Value(v) == [panic |-> FALSE, v |-> v]

RoundConfig(p, s, a) == [price |-> p, size |-> s, amount |-> a]

\* a table whose amount precision is one digit short of price plus size
ROUNDING_CONFIG_short_amount ==
    { <<Dec(1, 1), RoundConfig(1, 2, 2)>>,
      <<Dec(1, 2), RoundConfig(2, 2, 3)>>,
      <<Dec(1, 3), RoundConfig(3, 2, 4)>>,
      <<Dec(1, 4), RoundConfig(4, 2, 5)>> }

\* the table, as (tick size, RoundConfig) entries
ROUNDING_CONFIG ==
    { <<Dec(1, 1), RoundConfig(1, 2, 3)>>,
      <<Dec(1, 2), RoundConfig(2, 2, 4)>>,
      <<Dec(1, 3), RoundConfig(3, 2, 5)>>,
      <<Dec(1, 4), RoundConfig(4, 2, 6)>> }

\* Decimal keys hash and compare by value, so 0.10 finds the entry of 0.1
HasRoundConfig(tick) ==
    \E e \in ROUNDING_CONFIG : DecCmp(e[1], tick) = 0

\* &ROUNDING_CONFIG[&tick]: indexing a missing key panics
RoundConfigOf(tick) ==
    IF HasRoundConfig(tick)
    THEN Value((CHOOSE e \in ROUNDING_CONFIG : DecCmp(e[1], tick) = 0)[2])
    ELSE PANIC

\* u32::MAX = 4294967295, as digits
U32_MAX == Reverse(<<4,2,9,4,9,6,7,2,9,5>>)

\* the u32 (as its decimal digits) or PANIC when try_into fails
\* 2^32, as digits
U32_MODULUS == Reverse(<<4,2,9,4,9,6,7,2,9,6>>)

\* the conversion as a wrapping cast instead of a checked one
decimal_to_token_u32_wrapping(amt) ==
    LET scaled == DecMul(Dec(1000000, 0), amt)
        r      == IF scaled.s > 0
                  THEN round_dp_with_strategy(scaled, 0, "MidpointTowardZero")
                  ELSE scaled
    IN  Value(NatDivMod(r.m, U32_MODULUS).r)

decimal_to_token_u32(amt) ==
    LET scaled == DecMul(Dec(1000000, 0), amt)
        r      == IF scaled.s > 0
                  THEN round_dp_with_strategy(scaled, 0, "MidpointTowardZero")
                  ELSE scaled
    IN  IF r.neg \/ NatCmp(r.m, U32_MAX) > 0 THEN PANIC ELSE Value(r.m)

fix_amount_rounding(amt, round_config) ==
    IF amt.s > round_config.amount
    THEN LET a1 == round_dp_with_strategy(amt, round_config.amount + 4, "AwayFromZero")
         IN  IF a1.s > round_config.amount
             THEN round_dp_with_strategy(a1, round_config.amount, "ToZero")
             ELSE a1
    ELSE amt

\* the clamp with SELL given the precisions of BUY
clamp_amount_precision_unswapped(side, maker, taker) ==
    <<round_dp_with_strategy(maker, 2, "MidpointTowardZero"),
      round_dp_with_strategy(taker, 4, "MidpointTowardZero")>>

\* the clamp left out
clamp_amount_precision_none(side, maker, taker) == <<maker, taker>>

clamp_amount_precision(side, maker, taker) ==
    IF side = BUY
    THEN <<round_dp_with_strategy(maker, 2, "MidpointTowardZero"),
           round_dp_with_strategy(taker, 4, "MidpointTowardZero")>>
    ELSE <<round_dp_with_strategy(maker, 4, "MidpointTowardZero"),
           round_dp_with_strategy(taker, 2, "MidpointTowardZero")>>

\* (maker, taker) as u32 values, or PANIC when either conversion panics
TokenAmounts(clamped) ==
    LET m == decimal_to_token_u32(clamped[1])
        t == decimal_to_token_u32(clamped[2])
    IN  IF m.panic \/ t.panic THEN PANIC
        ELSE Value([maker |-> m.v, taker |-> t.v])

\* the limit amounts with the price cut instead of rounded
get_order_amounts_price_cut(side, size, price, round_config) ==
    LET raw_price == round_dp_with_strategy(price, round_config.price, "ToZero")
        raw_size  == round_dp_with_strategy(size, round_config.size, "ToZero")
        raw_other == fix_amount_rounding(DecMul(raw_size, raw_price), round_config)
    IN  IF side = BUY
        THEN TokenAmounts(clamp_amount_precision(BUY, raw_other, raw_size))
        ELSE TokenAmounts(clamp_amount_precision(SELL, raw_size, raw_other))

\* the limit amounts with the size rounded up instead of cut
get_order_amounts_size_up(side, size, price, round_config) ==
    LET raw_price == round_dp_with_strategy(price, round_config.price, "MidpointTowardZero")
        raw_size  == round_dp_with_strategy(size, round_config.size, "AwayFromZero")
        raw_other == fix_amount_rounding(DecMul(raw_size, raw_price), round_config)
    IN  IF side = BUY
        THEN TokenAmounts(clamp_amount_precision(BUY, raw_other, raw_size))
        ELSE TokenAmounts(clamp_amount_precision(SELL, raw_size, raw_other))

get_order_amounts(side, size, price, round_config) ==
    LET raw_price == round_dp_with_strategy(price, round_config.price, "MidpointTowardZero")
        raw_size  == round_dp_with_strategy(size, round_config.size, "ToZero")
        raw_other == fix_amount_rounding(DecMul(raw_size, raw_price), round_config)
    IN  IF side = BUY
        THEN TokenAmounts(clamp_amount_precision(BUY, raw_other, raw_size))
        ELSE TokenAmounts(clamp_amount_precision(SELL, raw_size, raw_other))

\* the market amounts without the repair of the quotient
get_market_order_amounts_unrepaired(amount, price, round_config) ==
    LET raw_maker_amt == round_dp_with_strategy(amount, round_config.size, "ToZero")
        raw_price     == round_dp_with_strategy(price, round_config.price, "MidpointTowardZero")
    IN  IF is_zero(raw_price) THEN PANIC
        ELSE TokenAmounts(clamp_amount_precision(BUY, raw_maker_amt,
                                                 DecDiv(raw_maker_amt, raw_price)))

get_market_order_amounts(amount, price, round_config) ==
    LET raw_maker_amt == round_dp_with_strategy(amount, round_config.size, "ToZero")
        raw_price     == round_dp_with_strategy(price, round_config.price, "MidpointTowardZero")
    IN  IF is_zero(raw_price) THEN PANIC
        ELSE LET raw_taker_amt ==
                     fix_amount_rounding(DecDiv(raw_maker_amt, raw_price), round_config)
             IN  TokenAmounts(clamp_amount_precision(BUY, raw_maker_amt, raw_taker_amt))

\* the loop of calculate_market_price from level i on, with the running sum
RECURSIVE MarketPriceFrom(_, _, _, _)
MarketPriceFrom(positions, amount_to_match, i, sum) ==
    IF i > Len(positions) THEN [ok |-> FALSE, err |-> "Not enough liquidity"]
    ELSE LET p    == positions[i]
             sum1 == DecAdd(sum, DecMul(p.size, p.price))
         IN  IF DecCmp(sum1, amount_to_match) >= 0
             THEN [price |-> p.price, ok |-> TRUE]
             ELSE MarketPriceFrom(positions, amount_to_match, i + 1, sum1)

\* the loop with the target compared strictly: a level that reaches the
\* target exactly is passed over
RECURSIVE MarketPriceFromStrict(_, _, _, _)
MarketPriceFromStrict(positions, amount_to_match, i, sum) ==
    IF i > Len(positions) THEN [ok |-> FALSE, err |-> "Not enough liquidity"]
    ELSE LET p    == positions[i]
             sum1 == DecAdd(sum, DecMul(p.size, p.price))
         IN  IF DecCmp(sum1, amount_to_match) > 0
             THEN [price |-> p.price, ok |-> TRUE]
             ELSE MarketPriceFromStrict(positions, amount_to_match, i + 1, sum1)

calculate_market_price_strict(positions, amount_to_match) ==
    MarketPriceFromStrict(positions, amount_to_match, 1, ZERO)

\* the loop summing the sizes instead of size * price
RECURSIVE MarketPriceFromSizes(_, _, _, _)
MarketPriceFromSizes(positions, amount_to_match, i, sum) ==
    IF i > Len(positions) THEN [ok |-> FALSE, err |-> "Not enough liquidity"]
    ELSE LET p    == positions[i]
             sum1 == DecAdd(sum, p.size)
         IN  IF DecCmp(sum1, amount_to_match) >= 0
             THEN [price |-> p.price, ok |-> TRUE]
             ELSE MarketPriceFromSizes(positions, amount_to_match, i + 1, sum1)

calculate_market_price_by_size(positions, amount_to_match) ==
    MarketPriceFromSizes(positions, amount_to_match, 1, ZERO)

calculate_market_price(positions, amount_to_match) ==
    MarketPriceFrom(positions, amount_to_match, 1, ZERO)

(***************************************************************************)
(* lib.rs: the price-range guard.                                          *)
(***************************************************************************)
\* the guard with the boundaries excluded
is_price_in_range_exclusive(price, tick_size) ==
    LET min_price == tick_size
        max_price == DecSub(ONE, tick_size)
    IN  ~(DecCmp(price, min_price) <= 0 \/ DecCmp(price, max_price) >= 0)

\* the guard without its upper bound
is_price_in_range_lower_only(price, tick_size) ==
    ~(DecCmp(price, tick_size) < 0)

\* the guard without its lower bound
is_price_in_range_upper_only(price, tick_size) ==
    ~(DecCmp(price, DecSub(ONE, tick_size)) > 0)

is_price_in_range(price, tick_size) ==
    LET min_price == tick_size
        max_price == DecSub(ONE, tick_size)
    IN  ~(DecCmp(price, min_price) < 0 \/ DecCmp(price, max_price) > 0)

(***************************************************************************)
(* Inputs of the calls.                                                    *)
(***************************************************************************)
None == [some |-> FALSE]

Some(v) == [v |-> v, some |-> TRUE]

Ok(v) == [v |-> v, kind |-> "ok"]

Err(msg) == [kind |-> "err", msg |-> msg]

Panicked == [kind |-> "panic"]

NoResult == [kind |-> "none"]

Level(p, s) == [price |-> p, size |-> s]

\* limit prices, inside and outside the legal range of the tick sizes
Prices ==
    { Dec(35, 2), Dec(355, 3), Dec(3551, 4), Dec(1, 2), Dec(99, 2), Dec(995, 3),
      Dec(10, 2), Dec(1, 4), Dec(9999, 4), Dec(99995, 5), Dec(5, 3),
      Dec(5, 1) }

\* order sizes: whole, with excess digits, at the u32 limit, negative
Sizes ==
    { Dec(100, 0), Dec(19, 3), Dec(1005, 3), Dec(123456, 4), Dec(429496, 2),
      Dec(429497, 2), Dec(-1, 0), Dec(0, 1) }

\* market-order notionals
Amounts ==
    { Dec(7, 0), Dec(5, 0), Dec(10, 0), Dec(1, 0), Dec(19, 3), Dec(2200, 0),
      Dec(1005, 3), Dec(0, 0) }

\* the most levels a book snapshot of the model has
MaxBookLevels == 3

\* ask sides of book snapshots
AllBooks ==
    { << >>,
      <<Level(Dec(5, 1), Dec(10, 0)), Level(Dec(6, 1), Dec(10, 0))>>,
      <<Level(Dec(5, 1), Dec(3, 0)), Level(Dec(6, 1), Dec(10, 0))>>,
      <<Level(Dec(5, 1), Dec(1, 0))>>,
      <<Level(Dec(3, 1), Dec(1, 0)), Level(Dec(33, 2), Dec(2050, 2)),
        Level(Dec(7, 3), Dec(1000000, 0))>>,
      <<Level(Dec(995, 3), Dec(1, 0)), Level(Dec(9, 1), Dec(5000, 0))>>,
      <<Level(Dec(1234, 4), Dec(50, 0)), Level(Dec(0, 0), Dec(9, 0)),
        Level(Dec(97, 2), Dec(100, 0))>>,
      <<Level(Dec(2, 1), Dec(5, 0)), Level(Dec(25, 2), Dec(4, 0)),
        Level(Dec(3, 1), Dec(10, 0)), Level(Dec(45, 2), Dec(15000, 0))>> }

Books == {b \in AllBooks : Len(b) <= MaxBookLevels}

\* tick sizes a caller passes; 0.5 has no RoundConfig
OptionTicks == { Dec(1, 1), Dec(1, 2), Dec(1, 3), Dec(5, 1) }

\* minimum tick sizes the exchange reports
MinTicks == { Dec(1, 2), Dec(1, 4) }

CreateOrderOptions(tick_size, neg_risk) ==
    [tick_size |-> tick_size, neg_risk |-> neg_risk]

OptionsGiven ==
    { CreateOrderOptions(t, n) :
        t \in {None} \cup {Some(x) : x \in OptionTicks},
        n \in {None, Some(TRUE)} }

(***************************************************************************)
(* Text, addresses and the construction of the OrderBuilder.  A String is  *)
(* the sequence of its characters.                                         *)
(***************************************************************************)
DigitChars == <<"0", "1", "2", "3", "4", "5", "6", "7", "8", "9">>

\* to_string of an unsigned integer given by its digits: no leading zeros
to_string(u) ==
    IF u = << >> THEN <<"0">>
    ELSE [i \in 1..Len(u) |-> DigitChars[u[Len(u) + 1 - i] + 1]]

IsDigitChar(c) == \E d \in 1..10 : DigitChars[d] = c

DigitOf(c) == (CHOOSE d \in 1..10 : DigitChars[d] = c) - 1

\* the number a decimal numeral denotes: one digit or more, digits only
Numeral(text) ==
    IF text # << >> /\ \A i \in 1..Len(text) : IsDigitChar(text[i])
    THEN Some(Strip([i \in 1..Len(text) |-> DigitOf(text[Len(text) + 1 - i])]))
    ELSE None

\* the character from_str_radix skips in a radix of 36 or less
IsDigitSeparator(c) == c = "_"

IsRadixDigit(c) == ~IsDigitSeparator(c)

\* U256::from_str_radix(text, 10): the characters '_' are skipped, every
\* other character must be a digit below the radix, and the digits that are
\* left are read most significant first, none of them being zero
from_str_radix(text) ==
    LET digits == SelectSeq(text, IsRadixDigit)
    IN  IF \A i \in 1..Len(digits) : IsDigitChar(digits[i])
        THEN Some(Strip([i \in 1..Len(digits) |->
                            DigitOf(digits[Len(digits) + 1 - i])]))
        ELSE None

ZERO_ADDRESS ==
    <<"0", "x", "0", "0", "0", "0", "0", "0", "0", "0", "0", "0", "0", "0",
      "0", "0", "0", "0", "0", "0", "0", "0", "0", "0", "0", "0", "0", "0",
      "0", "0", "0", "0", "0", "0", "0", "0", "0", "0", "0", "0", "0", "0">>

\* an address written in lower case, and as to_checksum writes it
TAKER_LOWER ==
    <<"0", "x", "a", "b", "5", "8", "0", "1", "a", "7", "d", "3", "9", "8",
      "3", "5", "1", "b", "8", "b", "e", "1", "1", "c", "4", "3", "9", "e",
      "0", "5", "c", "5", "b", "3", "2", "5", "9", "a", "e", "c", "9", "b">>

TAKER_CHECKSUM ==
    <<"0", "x", "A", "b", "5", "8", "0", "1", "a", "7", "D", "3", "9", "8",
      "3", "5", "1", "b", "8", "b", "E", "1", "1", "C", "4", "3", "9", "e",
      "0", "5", "C", "5", "B", "3", "2", "5", "9", "a", "e", "C", "9", "B">>

WALLET_CHECKSUM ==
    <<"0", "x", "f", "3", "9", "F", "d", "6", "e", "5", "1", "a", "a", "d",
      "8", "8", "F", "6", "F", "4", "c", "e", "6", "a", "B", "8", "8", "2",
      "7", "2", "7", "9", "c", "f", "f", "F", "b", "9", "2", "2", "6", "6">>

FUNDER_CHECKSUM ==
    <<"0", "x", "7", "0", "9", "9", "7", "9", "7", "0", "C", "5", "1", "8",
      "1", "2", "d", "c", "3", "A", "0", "1", "0", "C", "7", "d", "0", "1",
      "b", "5", "0", "e", "0", "d", "1", "7", "d", "c", "7", "9", "C", "8">>

WALLET_LOWER ==
    <<"0", "x", "f", "3", "9", "f", "d", "6", "e", "5", "1", "a", "a", "d",
      "8", "8", "f", "6", "f", "4", "c", "e", "6", "a", "b", "8", "8", "2",
      "7", "2", "7", "9", "c", "f", "f", "f", "b", "9", "2", "2", "6", "6">>

FUNDER_LOWER ==
    <<"0", "x", "7", "0", "9", "9", "7", "9", "7", "0", "c", "5", "1", "8",
      "1", "2", "d", "c", "3", "a", "0", "1", "0", "c", "7", "d", "0", "1",
      "b", "5", "0", "e", "0", "d", "1", "7", "d", "c", "7", "9", "c", "8">>

\* the addresses of the model: the 20 bytes are named, texts spells them
AddressBook ==
    { [addr |-> "zero", checksum |-> ZERO_ADDRESS, lower |-> ZERO_ADDRESS,
       texts |-> {ZERO_ADDRESS}],
      [addr |-> "taker", checksum |-> TAKER_CHECKSUM, lower |-> TAKER_LOWER,
       texts |-> {TAKER_LOWER, TAKER_CHECKSUM}],
      [addr |-> "wallet", checksum |-> WALLET_CHECKSUM, lower |-> WALLET_LOWER,
       texts |-> {WALLET_LOWER, WALLET_CHECKSUM}],
      [addr |-> "funder", checksum |-> FUNDER_CHECKSUM, lower |-> FUNDER_LOWER,
       texts |-> {FUNDER_LOWER, FUNDER_CHECKSUM}] }

\* encode_prefixed(address.as_slice()): 0x and the bytes in lower-case hex
encode_prefixed(addr) == (CHOOSE e \in AddressBook : e.addr = addr).lower

\* a parse that takes a text that spells no address for the zero address
Address_from_str_or_zero(text) ==
    IF \E e \in AddressBook : text \in e.texts
    THEN Some((CHOOSE e \in AddressBook : text \in e.texts).addr)
    ELSE Some("zero")

\* Address::from_str
Address_from_str(text) ==
    IF \E e \in AddressBook : text \in e.texts
    THEN Some((CHOOSE e \in AddressBook : text \in e.texts).addr)
    ELSE None

\* Address::to_checksum(None)
to_checksum(addr) == (CHOOSE e \in AddressBook : e.addr = addr).checksum

\* the address of the wallet the client signs with
SignerAddress == "wallet"

SigTypes == {"Eoa", "PolyProxy", "PolyGnosisSafe"}

\* sig_type as u8
SigTypeTag(sig_type) ==
    CASE sig_type = "Eoa" -> 0
      [] sig_type = "PolyProxy" -> 1
      [] sig_type = "PolyGnosisSafe" -> 2

\* side as u8
SideTag(side) == IF side = BUY THEN 0 ELSE 1

\* Side::as_str
as_str(side) == IF side = BUY THEN <<"B", "U", "Y">> ELSE <<"S", "E", "L", "L">>

\* OrderBuilder::new
OrderBuilder_new(signer, sig_type, funder) ==
    [sig_type |-> IF sig_type.some THEN sig_type.v ELSE "Eoa",
     signer |-> signer,
     funder |-> IF funder.some THEN funder.v ELSE signer]

ClientSignerConfig(signature_type, funder) ==
    [funder |-> funder, signature_type |-> signature_type]

\* ClientSignerConfig::default
DefaultSignerConfig == ClientSignerConfig("Eoa", None)

SignerConfigs ==
    { ClientSignerConfig(t, f) : t \in SigTypes, f \in {None, Some("funder")} }

\* ClobClient::build_order_builder
build_order_builder(signer, config) ==
    LET funder == IF config.funder.some THEN config.funder.v ELSE signer
    IN  OrderBuilder_new(signer, Some(config.signature_type), Some(funder))

ExtraOrderArgs(fee_rate_bps, nonce, taker) ==
    [taker |-> taker, fee_rate_bps |-> fee_rate_bps, nonce |-> nonce]

\* ExtraOrderArgs::default
DefaultExtras == ExtraOrderArgs(<< >>, << >>, ZERO_ADDRESS)

\* extras a caller passes: an override taker in lower case with a nonce and a
\* fee, and a taker that is no address
ExtrasGiven ==
    { None,
      Some(ExtraOrderArgs(NatDigits(25), NatDigits(7), TAKER_LOWER)),
      Some(ExtraOrderArgs(<< >>, << >>, <<"t", "a", "k", "e", "r">>)) }

\* token ids: decimal, decimal with leading zeros, with a separator, in hex
TokenIds ==
    { <<"1", "2", "3">>, <<"0", "0", "7">>, <<"1", "_", "2">>,
      <<"0", "x", "1", "f">> }

\* expirations a caller passes
Expirations == { None, Some(NatDigits(1700000000)) }

\* seeds generate_seed draws
Seeds == { << >>, NatDigits(1234567890) }

(***************************************************************************)
(* One call of ClobClient::create_order or ClobClient::create_market_order *)
(* from its start to its return, step by step at its await points and at   *)
(* the steps of the OrderBuilder.                                          *)
(***************************************************************************)
VARIABLES
    pc,         \* where the call stands
    call,       \* the arguments of the call
    opts,       \* the CreateOrderOptions filled so far
    book,       \* the asks of the fetched book snapshot
    price,      \* the limit price or the estimated price
    amounts,    \* (maker, taker) in token units once computed
    rounded,    \* how often the amount rounding ran
    signCalls,  \* how often the signer was invoked
    result,     \* what the call returned
    builder,    \* the OrderBuilder of the client
    order,      \* the Order record handed to the signer once built
    creds,      \* the ApiCreds of the client
    sent,       \* the request the http client transmitted
    log,        \* (body, canonical string) of the requests made so far
    market_tick,  \* the minimum tick size GET /tick-size answered
    threads,    \* the calls of the other callers, where they were suspended
    pager       \* cursor, output and requests of a paging call

authVars == <<creds, sent, log>>

restVars == <<market_tick, threads, pager>>

vars == <<pc, call, opts, book, price, amounts, rounded, signCalls, result,
          builder, order, authVars, restVars>>

\* what a call holds in its own frame: nothing of it is shared
IdleContext ==
    [price |-> None, pc |-> "idle",
     call |-> [op |-> "none"], opts |-> CreateOrderOptions(None, None), book |-> None,
     amounts |-> None, rounded |-> 0, signCalls |-> 0, result |-> NoResult,
     order |-> None, market_tick |-> None]

\* a paging call that has not started
NoPager == [cursor |-> << >>, output |-> << >>, requests |-> << >>]

\* a client whose OrderBuilder is b, before its first call, and n other
\* callers that hold a reference to it
InitCallers(b, n) ==
    /\ pc = "idle"
    /\ call = [op |-> "none"]
    /\ opts = CreateOrderOptions(None, None)
    /\ book = None
    /\ price = None
    /\ amounts = None
    /\ rounded = 0
    /\ signCalls = 0
    /\ result = NoResult
    /\ builder = b
    /\ order = None
    /\ creds = None
    /\ sent = None
    /\ log = << >>
    /\ market_tick = None
    /\ threads = [t \in 1..n |-> IdleContext]
    /\ pager = NoPager

InitWith(b) == InitCallers(b, 0)

\* the client of ClobClient::with_l1_headers
Init == InitWith(build_order_builder(SignerAddress, DefaultSignerConfig))

\* the call ends and hands r to the caller
Return(r) ==
    /\ pc' = "done"
    /\ result' = r

\* the token id of the calls that sweep the numeric arguments
TOKEN_ID == <<"1", "2", "3">>

\* ClobClient::create_order is entered with arguments of the given sets
EnterCreateOrder(sizes, prices, options, expirations, extras, tokens) ==
    /\ pc = "idle"
    /\ \E side \in {BUY, SELL}, size \in sizes, p \in prices, o \in options,
          x \in expirations, e \in extras, t \in tokens :
          call' = [price |-> p, size |-> size, side |-> side,
                   op |-> "create_order", options |-> o, extras |-> e, via |-> "client",
                   token_id |-> t, expiration |-> x]
    /\ pc' = "resolve_tick_size"
    /\ UNCHANGED <<opts, book, price, amounts, rounded, signCalls, result>>
    /\ UNCHANGED <<builder, order, authVars, restVars>>

\* ClobClient::create_market_order is entered with arguments of the given sets
EnterCreateMarketOrder(amts, options, extras, tokens) ==
    /\ pc = "idle"
    /\ \E amount \in amts, o \in options, e \in extras, t \in tokens :
          call' = [amount |-> amount, op |-> "create_market_order",
                   options |-> o, extras |-> e, via |-> "client",
                   token_id |-> t, expiration |-> None]
    /\ pc' = "resolve_tick_size"
    /\ UNCHANGED <<opts, book, price, amounts, rounded, signCalls, result>>
    /\ UNCHANGED <<builder, order, authVars, restVars>>

\* create_order over the sizes, prices and options, with the optional
\* arguments left out
CallCreateOrder ==
    EnterCreateOrder(Sizes, Prices, OptionsGiven, {None}, {None}, {TOKEN_ID})

\* create_market_order over the amounts and options
CallCreateMarketOrder ==
    EnterCreateMarketOrder(Amounts, OptionsGiven, {None}, {TOKEN_ID})

\* where get_filled_order_options returns to
AfterOptions ==
    IF call.op = "create_order" THEN "range_check" ELSE "get_order_book"

\* the caller's tick size taken without a look at the market's minimum
resolve_tick_size_unchecked(tick_size, min_tick_size) ==
    IF ~tick_size.some THEN Ok(min_tick_size) ELSE Ok(tick_size.v)

\* the caller's tick size against the market's minimum
resolve_tick_size(tick_size, min_tick_size) ==
    IF ~tick_size.some THEN Ok(min_tick_size)
    ELSE IF DecCmp(tick_size.v, min_tick_size) < 0
         THEN Err("Tick size is smaller than min_tick_size")
         ELSE Ok(tick_size.v)

\* get_filled_order_options that hands on the caller's neg_risk as it came
FilledOptions_unfetched(tick_size, neg_risk) ==
    CreateOrderOptions(Some(tick_size), call.options.neg_risk)

\* what get_filled_order_options returns: both options present
FilledOptions(tick_size, neg_risk) ==
    CreateOrderOptions(Some(tick_size), Some(neg_risk))

\* get_filled_order_options up to the neg-risk request: GET /tick-size answers
\* or fails, the tick size is resolved, and a neg_risk the caller gave is taken
ResolveTickSize ==
    /\ pc = "resolve_tick_size"
    /\ \/ /\ Return(Err("Error fetching tick size"))
          /\ UNCHANGED <<opts, price, market_tick>>
       \/ \E m \in MinTicks :
            LET t == resolve_tick_size(call.options.tick_size, m)
            IN  /\ market_tick' = Some(m)
                /\ IF t.kind = "err"
                   THEN Return(t) /\ UNCHANGED <<opts, price>>
                   ELSE /\ result' = result
                        /\ IF call.options.neg_risk.some
                           THEN /\ opts' = FilledOptions(
                                               t.v, call.options.neg_risk.v)
                                /\ pc' = AfterOptions
                                /\ price' = IF call.op = "create_order"
                                            THEN Some(call.price) ELSE price
                           ELSE /\ opts' = CreateOrderOptions(Some(t.v), None)
                                /\ pc' = "get_neg_risk"
                                /\ price' = price
    /\ UNCHANGED <<call, book, amounts, rounded, signCalls>>
    /\ UNCHANGED <<builder, order, authVars, threads, pager>>

\* GET /neg-risk answers or fails
GetNegRisk ==
    /\ pc = "get_neg_risk"
    /\ \/ /\ Return(Err("Error fetching neg_risk"))
          /\ UNCHANGED <<opts, price>>
       \/ \E nr \in BOOLEAN :
            /\ opts' = FilledOptions(opts.tick_size.v, nr)
            /\ pc' = AfterOptions
            /\ price' = IF call.op = "create_order" THEN Some(call.price) ELSE price
            /\ result' = result
    /\ UNCHANGED <<call, book, amounts, rounded, signCalls>>
    /\ UNCHANGED <<builder, order, authVars, restVars>>

\* ClobClient::calculate_market_price: GET /book answers or fails, and the
\* estimator walks the asks
GetOrderBook ==
    /\ pc = "get_order_book"
    /\ \/ /\ Return(Err("Error fetching book"))
          /\ UNCHANGED <<book, price>>
       \/ \E asks \in Books :
            LET p == calculate_market_price(asks, call.amount)
            IN  /\ book' = Some(asks)
                /\ IF p.ok
                   THEN price' = Some(p.price) /\ pc' = "range_check"
                                               /\ result' = result
                   ELSE price' = price /\ Return(Err(p.err))
    /\ UNCHANGED <<call, opts, amounts, rounded, signCalls>>
    /\ UNCHANGED <<builder, order, authVars, restVars>>

\* the price-range guard of create_order and create_market_order
RangeCheck ==
    /\ pc = "range_check"
    /\ IF ~is_price_in_range(price.v, opts.tick_size.v)
       THEN Return(Err("Price is not in range of tick_size"))
       ELSE pc' = "amounts" /\ result' = result
    /\ UNCHANGED <<call, opts, book, price, amounts, rounded, signCalls>>
    /\ UNCHANGED <<builder, order, authVars, restVars>>

\* OrderBuilder::create_order / create_market_order up to the amounts: the
\* tick size must be there, its RoundConfig is looked up, the amounts rounded
BuilderAmounts ==
    /\ pc = "amounts"
    /\ IF ~opts.tick_size.some
       THEN /\ Return(Err("Cannot create order without tick size"))
            /\ UNCHANGED <<amounts, rounded>>
       ELSE LET rc == RoundConfigOf(opts.tick_size.v)
            IN  IF rc.panic
                THEN Return(Panicked) /\ UNCHANGED <<amounts, rounded>>
                ELSE LET a == IF call.op = "create_order"
                              THEN get_order_amounts(call.side, call.size,
                                                     call.price, rc.v)
                              ELSE get_market_order_amounts(call.amount,
                                                            price.v, rc.v)
                     IN  /\ rounded' = rounded + 1
                         /\ IF a.panic
                            THEN Return(Panicked) /\ amounts' = amounts
                            ELSE /\ amounts' = Some(a.v)
                                 /\ pc' = "contract"
                                 /\ result' = result
    /\ UNCHANGED <<call, opts, book, price, signCalls>>
    /\ UNCHANGED <<builder, order, authVars, restVars>>

\* the neg_risk flag must be there, the registry knows the exchange of
\* (chain_id, neg_risk) or does not, and its address parses or does not
BuilderContract ==
    /\ pc = "contract"
    /\ IF ~opts.neg_risk.some
       THEN Return(Err("Cannot create order without neg_risk"))
       ELSE \E found \in BOOLEAN, exchangeOk \in BOOLEAN :
              IF ~found
              THEN Return(Err("No contract found with given chain_id and neg_risk"))
              ELSE IF ~exchangeOk THEN Return(Err("Invalid exchange address"))
              ELSE pc' = "build" /\ result' = result
    /\ UNCHANGED <<call, opts, book, price, amounts, rounded, signCalls>>
    /\ UNCHANGED <<builder, order, authVars, restVars>>

\* the side a built order carries: market orders are built as BUY
OrderSide == IF call.op = "create_order" THEN call.side ELSE BUY

\* extras.unwrap_or_default()
ExtrasOf(c) == IF c.extras.some THEN c.extras.v ELSE DefaultExtras

\* expiration.unwrap_or(0); a market order is built with expiration 0
ExpirationOf(c) ==
    IF c.op = "create_order" /\ c.expiration.some THEN c.expiration.v ELSE << >>

\* the Order record with the wallet as maker, whatever the funder
Order_signer_as_maker(seed, taker_address, u256_token_id) ==
    [side |-> SideTag(OrderSide),
     maker |-> builder.signer,
     taker |-> taker_address,
     signer |-> builder.signer,
     nonce |-> ExtrasOf(call).nonce,
     expiration |-> ExpirationOf(call),
     salt |-> seed,
     tokenId |-> u256_token_id,
     makerAmount |-> amounts.v.maker,
     takerAmount |-> amounts.v.taker,
     feeRateBps |-> ExtrasOf(call).fee_rate_bps,
     signatureType |-> SigTypeTag(builder.sig_type)]

\* the Order record of eth_utils that is signed
Order(seed, taker_address, u256_token_id) ==
    [side |-> SideTag(OrderSide),
     maker |-> builder.funder,
     taker |-> taker_address,
     signer |-> builder.signer,
     nonce |-> ExtrasOf(call).nonce,
     expiration |-> ExpirationOf(call),
     salt |-> seed,
     tokenId |-> u256_token_id,
     makerAmount |-> amounts.v.maker,
     takerAmount |-> amounts.v.taker,
     feeRateBps |-> ExtrasOf(call).fee_rate_bps,
     signatureType |-> SigTypeTag(builder.sig_type)]

\* build_signed_order up to the Order record: a seed is drawn, and the taker
\* address and the token id parse or do not
BuildOrderRecord ==
    /\ pc = "build"
    /\ \E seed \in Seeds :
          LET taker_address == Address_from_str(ExtrasOf(call).taker)
              u256_token_id == from_str_radix(call.token_id)
          IN  IF ~taker_address.some
              THEN Return(Err("Invalid taker address")) /\ order' = order
              ELSE IF ~u256_token_id.some
              THEN Return(Err("Incorrect tokenId format")) /\ order' = order
              ELSE /\ order' = Some(Order(seed, taker_address.v, u256_token_id.v))
                   /\ pc' = "sign"
                   /\ result' = result
    /\ UNCHANGED <<call, opts, book, price, amounts, rounded, signCalls>>
    /\ UNCHANGED <<builder, authVars, restVars>>

\* a field of type String, u64 or u8
Str(s) == [s |-> s, type |-> "String"]

U64(n) == [n |-> n, type |-> "u64"]

U8(n) == [n |-> n, type |-> "u8"]

\* what the wallet returns for a payload it signed
Signature(signer, payload) == [payload |-> payload, signed_by |-> signer]

\* a SignedOrderRequest that carries the amounts as integers
SignedOrderRequest_native_amounts(o, token_id, signature) ==
    [side |-> Str(as_str(OrderSide)),
     maker |-> Str(to_checksum(builder.funder)),
     taker |-> Str(to_checksum(o.taker)),
     signer |-> Str(to_checksum(builder.signer)),
     signature_type |-> U8(SigTypeTag(builder.sig_type)),
     fee_rate_bps |-> Str(to_string(o.feeRateBps)),
     nonce |-> Str(to_string(o.nonce)),
     token_id |-> Str(token_id),
     expiration |-> Str(to_string(o.expiration)),
     salt |-> U64(o.salt),
     signature |-> Str(signature),
     maker_amount |-> U64(o.makerAmount),
     taker_amount |-> U64(o.takerAmount)]

\* the SignedOrderRequest of build_signed_order
SignedOrderRequest(o, token_id, signature) ==
    [side |-> Str(as_str(OrderSide)),
     maker |-> Str(to_checksum(builder.funder)),
     taker |-> Str(to_checksum(o.taker)),
     signer |-> Str(to_checksum(builder.signer)),
     signature_type |-> U8(SigTypeTag(builder.sig_type)),
     fee_rate_bps |-> Str(to_string(o.feeRateBps)),
     nonce |-> Str(to_string(o.nonce)),
     token_id |-> Str(token_id),
     expiration |-> Str(to_string(o.expiration)),
     salt |-> U64(o.salt),
     signature |-> Str(signature),
     maker_amount |-> Str(to_string(o.makerAmount)),
     taker_amount |-> Str(to_string(o.takerAmount))]

\* sign_order_message and the SignedOrderRequest built from its signature
SignOrder ==
    /\ pc = "sign"
    /\ signCalls' = signCalls + 1
    /\ \E signed \in BOOLEAN :
          IF signed
          THEN Return(Ok(SignedOrderRequest(
                    order.v, call.token_id, Signature(builder.signer, order.v))))
          ELSE Return(Err("signer failed"))
    /\ UNCHANGED <<call, opts, book, price, amounts, rounded>>
    /\ UNCHANGED <<builder, order, authVars, restVars>>

Next ==
    \/ CallCreateOrder
    \/ CallCreateMarketOrder
    \/ ResolveTickSize
    \/ GetNegRisk
    \/ GetOrderBook
    \/ RangeCheck
    \/ BuilderAmounts
    \/ BuilderContract
    \/ BuildOrderRecord
    \/ SignOrder

Spec == Init /\ [][Next]_vars

\* the calls of create_order alone
NextLimit ==
    \/ CallCreateOrder
    \/ ResolveTickSize
    \/ GetNegRisk
    \/ RangeCheck
    \/ BuilderAmounts
    \/ BuilderContract
    \/ BuildOrderRecord
    \/ SignOrder

SpecLimit == Init /\ [][NextLimit]_vars

\* the calls of create_market_order alone
NextMarket ==
    \/ CallCreateMarketOrder
    \/ ResolveTickSize
    \/ GetNegRisk
    \/ GetOrderBook
    \/ RangeCheck
    \/ BuilderAmounts
    \/ BuilderContract
    \/ BuildOrderRecord
    \/ SignOrder

SpecMarket == Init /\ [][NextMarket]_vars

(***************************************************************************)
(* serde: what a value serializes to.  A struct is an object whose entries *)
(* keep the order of the fields; a HashMap is an object whose entries come *)
(* in the order its iterator yields them.                                  *)
(***************************************************************************)
JStr(s) == [s |-> s, json |-> "string"]

JNum(u) == [n |-> u, json |-> "number"]

JArr(items) == [json |-> "array", items |-> items]

JObj(entries) == [json |-> "object", entries |-> entries]

\* Serialize for String, u64 and u8
serialize_field(f) ==
    CASE f.type = "String" -> JStr(f.s)
      [] f.type = "u64" -> JNum(f.n)
      [] f.type = "u8" -> JNum(NatDigits(f.n))

\* #[derive(Serialize)] #[serde(rename_all = "camelCase")] SignedOrderRequest
serialize_SignedOrderRequest(r) ==
    JObj(<<
          <<<<"s", "a", "l", "t">>,
            serialize_field(r.salt)>>,
          <<<<"m", "a", "k", "e", "r">>,
            serialize_field(r.maker)>>,
          <<<<"s", "i", "g", "n", "e", "r">>,
            serialize_field(r.signer)>>,
          <<<<"t", "a", "k", "e", "r">>,
            serialize_field(r.taker)>>,
          <<<<"t", "o", "k", "e", "n", "I", "d">>,
            serialize_field(r.token_id)>>,
          <<<<"m", "a", "k", "e", "r", "A", "m", "o", "u", "n", "t">>,
            serialize_field(r.maker_amount)>>,
          <<<<"t", "a", "k", "e", "r", "A", "m", "o", "u", "n", "t">>,
            serialize_field(r.taker_amount)>>,
          <<<<"e", "x", "p", "i", "r", "a", "t", "i", "o", "n">>,
            serialize_field(r.expiration)>>,
          <<<<"n", "o", "n", "c", "e">>,
            serialize_field(r.nonce)>>,
          <<<<"f", "e", "e", "R", "a", "t", "e", "B", "p", "s">>,
            serialize_field(r.fee_rate_bps)>>,
          <<<<"s", "i", "d", "e">>,
            serialize_field(r.side)>>,
          <<<<"s", "i", "g", "n", "a", "t", "u", "r", "e", "T", "y", "p", "e">>,
            serialize_field(r.signature_type)>>,
          <<<<"s", "i", "g", "n", "a", "t", "u", "r", "e">>,
            serialize_field(r.signature)>> >>)

\* the value of the entry of an object under a key
JsonField(obj, key) ==
    obj.entries[CHOOSE i \in 1..Len(obj.entries) : obj.entries[i][1] = key][2]

(***************************************************************************)
(* Calls that sweep the signer configuration and the arguments that end up *)
(* in the fields of the order, at one size and one price.                  *)
(***************************************************************************)
\* the builders OrderBuilder::new and build_order_builder construct
Builders ==
    { OrderBuilder_new(SignerAddress, t, f) :
        t \in {None} \cup {Some(x) : x \in SigTypes},
        f \in {None, Some("funder")} }
    \cup { build_order_builder(SignerAddress, c) : c \in SignerConfigs }

\* a client of ClobClient::with_l1_headers_config
InitSigned == \E b \in Builders : InitWith(b)

FieldOptions ==
    { CreateOrderOptions(Some(Dec(1, 2)), n) : n \in {None, Some(TRUE)} }

CallCreateOrderFields ==
    EnterCreateOrder({Dec(100, 0)}, {Dec(35, 2)}, FieldOptions, Expirations,
                     ExtrasGiven, TokenIds)

CallCreateMarketOrderFields ==
    EnterCreateMarketOrder({Dec(7, 0)}, FieldOptions, ExtrasGiven, TokenIds)

NextSigned ==
    \/ CallCreateOrderFields
    \/ CallCreateMarketOrderFields
    \/ ResolveTickSize
    \/ GetNegRisk
    \/ GetOrderBook
    \/ RangeCheck
    \/ BuilderAmounts
    \/ BuilderContract
    \/ BuildOrderRecord
    \/ SignOrder

SpecSigned == InitSigned /\ [][NextSigned]_vars

(***************************************************************************)
(* The OrderBuilder called by code of the crate itself, with the options   *)
(* as the caller hands them over: nothing has resolved or checked them.    *)
(***************************************************************************)
BuilderSizes == { Dec(100, 0), Dec(429497, 2), Dec(-1, 0) }

BuilderPrices == { Dec(35, 2), Dec(0, 0) }

\* OrderBuilder::create_order is entered
CallBuilderCreateOrder ==
    /\ pc = "idle"
    /\ \E side \in {BUY, SELL}, size \in BuilderSizes, o \in OptionsGiven :
          /\ call' = [price |-> Dec(35, 2), size |-> size, side |-> side,
                      op |-> "create_order", options |-> o, extras |-> None,
                      via |-> "builder", token_id |-> TOKEN_ID,
                      expiration |-> None]
          /\ opts' = o
          /\ price' = Some(Dec(35, 2))
    /\ pc' = "amounts"
    /\ UNCHANGED <<book, amounts, rounded, signCalls, result>>
    /\ UNCHANGED <<builder, order, authVars, restVars>>

\* OrderBuilder::create_market_order is entered
CallBuilderCreateMarketOrder ==
    /\ pc = "idle"
    /\ \E amount \in {Dec(7, 0), Dec(2200, 0)}, p \in BuilderPrices,
          o \in OptionsGiven :
          /\ call' = [amount |-> amount, op |-> "create_market_order",
                      options |-> o, extras |-> None, via |-> "builder",
                      token_id |-> TOKEN_ID, expiration |-> None]
          /\ opts' = o
          /\ price' = Some(p)
    /\ pc' = "amounts"
    /\ UNCHANGED <<book, amounts, rounded, signCalls, result>>
    /\ UNCHANGED <<builder, order, authVars, restVars>>

NextBuilder ==
    \/ CallBuilderCreateOrder
    \/ CallBuilderCreateMarketOrder
    \/ BuilderAmounts
    \/ BuilderContract
    \/ BuildOrderRecord
    \/ SignOrder

SpecBuilder == Init /\ [][NextBuilder]_vars

(***************************************************************************)
(* Several callers on one OrderBuilder.  Its methods take &self and keep   *)
(* what they compute in locals, so a call is its frame: the variables of   *)
(* the call hold the frame of the caller that runs, threads the frames of  *)
(* the callers that are suspended, and the builder is what they share.     *)
(***************************************************************************)
\* how many callers there are beside the first
OtherCallers == 1

\* the frame of the caller that runs
Frame ==
    [price |-> price, pc |-> pc, call |-> call, opts |-> opts, book |-> book,
     amounts |-> amounts, rounded |-> rounded, signCalls |-> signCalls,
     result |-> result, order |-> order, market_tick |-> market_tick]

\* a builder that keeps the amounts in a field of its own: the caller that
\* resumes finds the amounts the other caller left there
Resumed_shared_amounts(t) ==
    [threads[t] EXCEPT !.amounts = amounts, !.rounded = rounded]

\* the frame caller t resumes with: its own, as it left it
Resumed(t) == threads[t]

\* the scheduler suspends the caller that runs and resumes caller t
Switch ==
    /\ \E t \in DOMAIN threads :
          LET f == Resumed(t)
          IN  /\ pc' = f.pc
              /\ call' = f.call
              /\ opts' = f.opts
              /\ book' = f.book
              /\ price' = f.price
              /\ amounts' = f.amounts
              /\ rounded' = f.rounded
              /\ signCalls' = f.signCalls
              /\ result' = f.result
              /\ order' = f.order
              /\ market_tick' = f.market_tick
              /\ threads' = [threads EXCEPT ![t] = Frame]
    /\ UNCHANGED <<builder, authVars, pager>>

CallerOptions ==
    { CreateOrderOptions(Some(Dec(1, 2)), Some(TRUE)),
      CreateOrderOptions(Some(Dec(1, 3)), Some(TRUE)),
      CreateOrderOptions(None, Some(TRUE)) }

\* a caller enters OrderBuilder::create_order
CallerCreateOrder ==
    /\ pc = "idle"
    /\ \E side \in {BUY, SELL}, size \in {Dec(100, 0), Dec(7, 0)},
          o \in CallerOptions :
          /\ call' = [price |-> Dec(35, 2), size |-> size, side |-> side,
                      op |-> "create_order", options |-> o, extras |-> None,
                      via |-> "builder", token_id |-> TOKEN_ID,
                      expiration |-> None]
          /\ opts' = o
          /\ price' = Some(Dec(35, 2))
    /\ pc' = "amounts"
    /\ UNCHANGED <<book, amounts, rounded, signCalls, result>>
    /\ UNCHANGED <<builder, order, authVars, restVars>>

\* a caller enters OrderBuilder::create_market_order
CallerCreateMarketOrder ==
    /\ pc = "idle"
    /\ \E p \in {Dec(5, 1), Dec(33, 2)} :
          /\ call' = [amount |-> Dec(100, 0), op |-> "create_market_order",
                      options |-> CreateOrderOptions(Some(Dec(1, 2)), Some(TRUE)),
                      extras |-> None,
                      via |-> "builder", token_id |-> TOKEN_ID,
                      expiration |-> None]
          /\ opts' = CreateOrderOptions(Some(Dec(1, 2)), Some(TRUE))
          /\ price' = Some(p)
    /\ pc' = "amounts"
    /\ UNCHANGED <<book, amounts, rounded, signCalls, result>>
    /\ UNCHANGED <<builder, order, authVars, restVars>>

\* a caller calls OrderBuilder::calculate_market_price on asks it holds
CallerCalculateMarketPrice ==
    /\ pc = "idle"
    /\ \E asks \in {b \in Books : Len(b) = 2},
          amount \in {Dec(5, 0), Dec(7, 0)} :
          LET p == calculate_market_price(asks, amount)
          IN  /\ call' = [amount |-> amount, op |-> "calculate_market_price",
                          via |-> "builder", asks |-> asks]
              /\ Return(IF p.ok THEN Ok(p.price) ELSE Err(p.err))
    /\ UNCHANGED <<opts, book, price, amounts, rounded, signCalls>>
    /\ UNCHANGED <<builder, order, authVars, restVars>>

NextCallers ==
    \/ CallerCreateOrder
    \/ CallerCreateMarketOrder
    \/ CallerCalculateMarketPrice
    \/ BuilderAmounts
    \/ BuilderContract
    \/ BuildOrderRecord
    \/ SignOrder
    \/ Switch

SpecCallers ==
    InitCallers(build_order_builder(SignerAddress, DefaultSignerConfig),
                OtherCallers)
    /\ [][NextCallers]_vars

(***************************************************************************)
(* Authentication headers and the requests of the client that carry them.  *)
(* A header set is a function from header names to values.                 *)
(***************************************************************************)
orderVars == <<opts, book, price, amounts, rounded, builder, order>>

POLY_ADDR_HEADER == "poly_address"

POLY_SIG_HEADER == "poly_signature"

POLY_TS_HEADER == "poly_timestamp"

POLY_NONCE_HEADER == "poly_nonce"

POLY_API_KEY_HEADER == "poly_api_key"

POLY_PASS_HEADER == "poly_passphrase"

\* get_current_unix_time_secs(): what the clock may read
Timestamps == { NatDigits(1000000), NatDigits(1700000000) }

\* the nonces a caller hands to the account-bootstrap operations
Nonces == { None, Some(NatDigits(0)), Some(NatDigits(7)) }

U256_ZERO == << >>

unwrap_or(o, d) == IF o.some THEN o.v ELSE d

\* sign_clob_auth_message: the wallet signs the auth payload made of the
\* timestamp and the nonce, or fails
sign_clob_auth_message(signer, timestamp, nonce, signed) ==
    IF signed
    THEN Ok(Signature(signer, [nonce |-> nonce, timestamp |-> timestamp]))
    ELSE Err("signer failed")

\* create_l1_headers whose nonce header is the caller's while zero is signed
create_l1_headers_zero_signed(signer, nonce, now, signed) ==
    LET timestamp == to_string(now)
        signature ==
            sign_clob_auth_message(signer, timestamp, U256_ZERO, signed)
    IN  IF signature.kind = "err" THEN signature
        ELSE Ok((POLY_ADDR_HEADER :> encode_prefixed(signer))
                @@ (POLY_SIG_HEADER :> signature.v)
                @@ (POLY_TS_HEADER :> timestamp)
                @@ (POLY_NONCE_HEADER
                      :> to_string(unwrap_or(nonce, U256_ZERO))))

\* create_l1_headers; now is what the clock reads and signed tells whether
\* the wallet signs
create_l1_headers(signer, nonce, now, signed) ==
    LET timestamp == to_string(now)
        n == unwrap_or(nonce, U256_ZERO)
        signature == sign_clob_auth_message(signer, timestamp, n, signed)
    IN  IF signature.kind = "err" THEN signature
        ELSE Ok((POLY_ADDR_HEADER :> encode_prefixed(signer))
                @@ (POLY_SIG_HEADER :> signature.v)
                @@ (POLY_TS_HEADER :> timestamp)
                @@ (POLY_NONCE_HEADER :> to_string(n)))

POST == <<"P", "O", "S", "T">>

GET == <<"G", "E", "T">>

DELETE == <<"D", "E", "L", "E", "T", "E">>

\* create_request_with_headers and the body the request is given
Request(method, endpoint, headers, body) ==
    [method |-> method, endpoint |-> endpoint, headers |-> headers,
     body |-> body]

\* send(): the request leaves the client
Send(req) ==
    /\ sent' = Some(req)
    /\ pc' = "sent"
    /\ result' = NoResult

\* create_api_key and derive_api_key up to the request they send
L1Call(op, method, endpoint) ==
    /\ pc = "idle"
    /\ signCalls' = signCalls + 1
    /\ \E nonce \in Nonces, now \in Timestamps, signed \in BOOLEAN :
          LET headers == create_l1_headers(SignerAddress, nonce, now, signed)
          IN  /\ call' = [nonce |-> nonce, op |-> op, via |-> "client",
                          now |-> now, auth |-> "l1"]
              /\ IF headers.kind = "ok"
                 THEN Send(Request(method, endpoint, headers.v, None))
                 ELSE Return(headers) /\ UNCHANGED sent
    /\ UNCHANGED <<orderVars, creds, log, restVars>>

CreateApiKey == L1Call("create_api_key", POST, <<"/", "a", "u", "t", "h", "/", "a", "p", "i", "-", "k", "e", "y">>)

DeriveApiKey == L1Call("derive_api_key", GET, <<"/", "a", "u", "t", "h", "/", "d", "e", "r", "i", "v", "e", "-", "a", "p", "i", "-", "k", "e", "y">>)

\* the server answers the request that was sent, or the transport fails
Response ==
    /\ pc = "sent"
    /\ \E answered \in BOOLEAN :
          IF answered THEN Return(Ok([response |-> "json"]))
          ELSE Return(Err("request failed"))
    /\ UNCHANGED <<call, signCalls, orderVars, authVars, restVars>>

(***************************************************************************)
(* The canonical signing primitive: the canonical string of a body, the    *)
(* URL-safe base64 engine, and the HMAC over the message layout.           *)
(***************************************************************************)
\* the text of a JSON string: quotes around it, quote and backslash escaped
Quoted(t) ==
    LET Escaped(c) ==
            IF c = "\"" \/ c = "\\" THEN <<"\\", c>> ELSE <<c>>
        F[i \in 0..Len(t)] ==
            IF i = 0 THEN <<"\"">> ELSE F[i - 1] \o Escaped(t[i])
    IN  F[Len(t)] \o <<"\"">>

\* the texts of a sequence with sep between neighbours
Joined(texts, sep) ==
    LET F[i \in 0..Len(texts)] ==
            IF i = 0 THEN << >>
            ELSE IF i = 1 THEN texts[1]
            ELSE F[i - 1] \o sep \o texts[i]
    IN  F[Len(texts)]

\* JsonFormat::format_to_string with the given separators
RECURSIVE format_to_string(_, _, _)
format_to_string(j, comma, colon) ==
    CASE j.json = "string" -> Quoted(j.s)
      [] j.json = "number" -> to_string(j.n)
      [] j.json = "array" ->
            <<"[">>
            \o Joined([i \in 1..Len(j.items) |->
                          format_to_string(j.items[i], comma, colon)], comma)
            \o <<"]">>
      [] j.json = "object" ->
            <<"{">>
            \o Joined([i \in 1..Len(j.entries) |->
                          Quoted(j.entries[i][1]) \o colon
                          \o format_to_string(j.entries[i][2], comma, colon)],
                      comma)
            \o <<"}">>

\* format_hmac_body: JsonFormat::new().comma(", ").colon(": ")
format_hmac_body(body) ==
    Ok(format_to_string(body, <<",", " ">>, <<":", " ">>))

\* serde_json::to_string: no space after the separators
to_string_compact(body) == Ok(format_to_string(body, <<",">>, <<":">>))

\* the alphabet of the URL_SAFE engine; the symbol at position i stands for
\* the six bits i - 1
URL_SAFE_ALPHABET ==
    <<"A", "B", "C", "D", "E", "F", "G", "H", "I", "J", "K", "L", "M", "N",
      "O", "P", "Q", "R", "S", "T", "U", "V", "W", "X", "Y", "Z", "a", "b",
      "c", "d", "e", "f", "g", "h", "i", "j", "k", "l", "m", "n", "o", "p",
      "q", "r", "s", "t", "u", "v", "w", "x", "y", "z", "0", "1", "2", "3",
      "4", "5", "6", "7", "8", "9", "-", "_">>

IsSymbol(c) == \E i \in 1..Len(URL_SAFE_ALPHABET) : URL_SAFE_ALPHABET[i] = c

SymbolValue(c) ==
    (CHOOSE i \in 1..Len(URL_SAFE_ALPHABET) : URL_SAFE_ALPHABET[i] = c) - 1

\* how many = end the text, up to three
Padding(text) ==
    LET n == Len(text)
        Pad(i) == i >= 1 /\ text[i] = "="
    IN  IF ~Pad(n) THEN 0
        ELSE IF ~Pad(n - 1) THEN 1
        ELSE IF ~Pad(n - 2) THEN 2
        ELSE 3

\* the bytes four symbols at a time stand for
DecodedBytes(text, p) ==
    LET n == Len(text)
        Sextet(i) == IF i > n - p THEN 0 ELSE SymbolValue(text[i])
        Byte(i) ==
            LET g == 4 * ((i - 1) \div 3)
                k == (i - 1) % 3
            IN  CASE k = 0 -> Sextet(g + 1) * 4 + Sextet(g + 2) \div 16
                  [] k = 1 -> (Sextet(g + 2) % 16) * 16 + Sextet(g + 3) \div 4
                  [] k = 2 -> (Sextet(g + 3) % 4) * 64 + Sextet(g + 4)
    IN  [i \in 1..(3 * (n \div 4) - p) |-> Byte(i)]

\* the last symbol before the padding carries no bits beyond the last byte
CanonicalLastSymbol(text, p) ==
    LET v == SymbolValue(text[Len(text) - p])
    IN  /\ p = 1 => v % 4 = 0
        /\ p = 2 => v % 16 = 0

\* a decode that takes a secret it cannot decode for the empty key
URL_SAFE_decode_or_empty(text) ==
    LET p == Padding(text)
    IN  IF \/ Len(text) % 4 # 0
           \/ p > 2
           \/ \E i \in 1..(Len(text) - p) : ~IsSymbol(text[i])
        THEN Some(<< >>)
        ELSE IF ~CanonicalLastSymbol(text, p) THEN Some(<< >>)
        ELSE Some(DecodedBytes(text, p))

\* URL_SAFE.decode: padding is required and must be canonical, a symbol
\* outside the alphabet or trailing bits are errors
URL_SAFE_decode(text) ==
    LET p == Padding(text)
    IN  IF \/ Len(text) % 4 # 0
           \/ p > 2
           \/ \E i \in 1..(Len(text) - p) : ~IsSymbol(text[i])
        THEN None
        ELSE IF ~CanonicalLastSymbol(text, p) THEN None
        ELSE Some(DecodedBytes(text, p))

\* URL_SAFE.encode of a digest: the digest is recovered from its text
URL_SAFE_encode(bytes) == [base64url |-> bytes]

\* the block of SHA-256 in bytes
BLOCK_SIZE == 64

\* Hmac<Sha256>: a key shorter than a block is filled up with zero bytes;
\* the digest is determined by the filled key and the message, and differs
\* when one of them differs
HmacSha256(key, message) ==
    [message |-> message,
     hmac_key |-> key \o [i \in 1..(BLOCK_SIZE - Len(key)) |-> 0]]

\* build_hmac_signature_from_str whose message starts with the method
build_hmac_signature_from_str_method_first(secret, timestamp, method, req_path, body) ==
    LET decoded == URL_SAFE_decode(secret)
        message ==
            IF body.some
            THEN method \o to_string(timestamp) \o req_path \o body.v
            ELSE method \o to_string(timestamp) \o req_path
    IN  IF ~decoded.some THEN Err("Can't decode secret to base64")
        ELSE Ok(URL_SAFE_encode(HmacSha256(decoded.v, message)))

\* build_hmac_signature_from_str whose message leaves the body out
build_hmac_signature_from_str_no_body(secret, timestamp, method, req_path, body) ==
    LET decoded == URL_SAFE_decode(secret)
        message == to_string(timestamp) \o method \o req_path
    IN  IF ~decoded.some THEN Err("Can't decode secret to base64")
        ELSE Ok(URL_SAFE_encode(HmacSha256(decoded.v, message)))

build_hmac_signature_from_str(secret, timestamp, method, req_path, body) ==
    LET decoded == URL_SAFE_decode(secret)
        message ==
            IF body.some
            THEN to_string(timestamp) \o method \o req_path \o body.v
            ELSE to_string(timestamp) \o method \o req_path
    IN  IF ~decoded.some THEN Err("Can't decode secret to base64")
        ELSE Ok(URL_SAFE_encode(HmacSha256(decoded.v, message)))

build_hmac_signature(secret, timestamp, method, req_path, body) ==
    LET formatted == IF body.some THEN format_hmac_body(body.v) ELSE Ok(<< >>)
        body_str == IF body.some THEN Some(formatted.v) ELSE None
    IN  IF formatted.kind = "err" THEN formatted
        ELSE build_hmac_signature_from_str(
                 secret, timestamp, method, req_path, body_str)

(***************************************************************************)
(* The requests that carry the API-credential headers.                     *)
(***************************************************************************)
ApiCreds(api_key, secret, passphrase) ==
    [secret |-> secret, api_key |-> api_key, passphrase |-> passphrase]

\* the secret of the test of build_hmac_signature: 32 zero bytes
TEST_SECRET ==
    <<"A", "A", "A", "A", "A", "A", "A", "A", "A", "A", "A", "A", "A", "A",
      "A", "A", "A", "A", "A", "A", "A", "A", "A", "A", "A", "A", "A", "A",
      "A", "A", "A", "A", "A", "A", "A", "A", "A", "A", "A", "A", "A", "A",
      "A", "=">>

\* secrets that decode, and secrets with a symbol of the standard alphabet,
\* without padding, and with trailing bits
Secrets ==
    { TEST_SECRET, <<"-", "_", "-", "_">>, <<"+", "/", "+", "/">>,
      <<"A", "A", "A">>, <<"A", "B", "=", "=">> }

CredsGiven == { ApiCreds(<<"k", "e", "y", "-", "1">>, x, <<"p", "a", "s", "s">>) : x \in Secrets }

\* create_l2_headers that returns the compact string next to the headers
create_l2_headers_compact_body(signer, api_creds, method, req_path, body, now) ==
    LET address == encode_prefixed(signer)
        formatted == IF body.some THEN format_hmac_body(body.v) ELSE Ok(<< >>)
        body_str == IF body.some THEN Some(formatted.v) ELSE None
        hmac_signature ==
            build_hmac_signature_from_str(
                api_creds.secret, now, method, req_path, body_str)
    IN  IF formatted.kind = "err" THEN formatted
        ELSE IF hmac_signature.kind = "err" THEN hmac_signature
        ELSE Ok([headers |->
                     (POLY_ADDR_HEADER :> address)
                     @@ (POLY_SIG_HEADER :> hmac_signature.v)
                     @@ (POLY_TS_HEADER :> to_string(now))
                     @@ (POLY_API_KEY_HEADER :> api_creds.api_key)
                     @@ (POLY_PASS_HEADER :> api_creds.passphrase),
                 body_str |->
                     IF body.some THEN Some(to_string_compact(body.v).v)
                     ELSE None])

\* create_l2_headers that reads the clock again for the timestamp header,
\* a second later
create_l2_headers_second_reading(signer, api_creds, method, req_path, body, now) ==
    LET address == encode_prefixed(signer)
        formatted == IF body.some THEN format_hmac_body(body.v) ELSE Ok(<< >>)
        body_str == IF body.some THEN Some(formatted.v) ELSE None
        hmac_signature ==
            build_hmac_signature_from_str(
                api_creds.secret, now, method, req_path, body_str)
    IN  IF formatted.kind = "err" THEN formatted
        ELSE IF hmac_signature.kind = "err" THEN hmac_signature
        ELSE Ok([headers |->
                     (POLY_ADDR_HEADER :> address)
                     @@ (POLY_SIG_HEADER :> hmac_signature.v)
                     @@ (POLY_TS_HEADER :> to_string(NatAdd(now, <<1>>)))
                     @@ (POLY_API_KEY_HEADER :> api_creds.api_key)
                     @@ (POLY_PASS_HEADER :> api_creds.passphrase),
                 body_str |-> body_str])

\* create_l2_headers; body is the value as it is serialized, now is what the
\* clock reads
create_l2_headers(signer, api_creds, method, req_path, body, now) ==
    LET address == encode_prefixed(signer)
        formatted == IF body.some THEN format_hmac_body(body.v) ELSE Ok(<< >>)
        body_str == IF body.some THEN Some(formatted.v) ELSE None
        hmac_signature ==
            build_hmac_signature_from_str(
                api_creds.secret, now, method, req_path, body_str)
    IN  IF formatted.kind = "err" THEN formatted
        ELSE IF hmac_signature.kind = "err" THEN hmac_signature
        ELSE Ok([headers |->
                     (POLY_ADDR_HEADER :> address)
                     @@ (POLY_SIG_HEADER :> hmac_signature.v)
                     @@ (POLY_TS_HEADER :> to_string(now))
                     @@ (POLY_API_KEY_HEADER :> api_creds.api_key)
                     @@ (POLY_PASS_HEADER :> api_creds.passphrase),
                 body_str |-> body_str])

\* HashMap::from: the entries, in no order
HashMap_from(pairs) == { pairs[i] : i \in 1..Len(pairs) }

\* the orders in which the iterator of a HashMap may yield its entries
IterationOrders(entries) ==
    { it \in [1..Cardinality(entries) -> entries] :
        \A e \in entries : \E i \in 1..Cardinality(entries) : it[i] = e }

\* Serialize for HashMap<&str, &str>, its entries met in the order it
serialize_HashMap(it) ==
    JObj([i \in 1..Len(it) |-> <<it[i][1], JStr(it[i][2])>>])

\* Serialize for [String] and [&str]
serialize_slice(items) ==
    JArr([i \in 1..Len(items) |-> JStr(items[i])])

PostOrder_new(o, owner, order_type) ==
    [order |-> o, owner |-> owner, order_type |-> order_type]

\* #[derive(Serialize)] #[serde(rename_all = "camelCase")] PostOrder
serialize_PostOrder(p) ==
    JObj(<< <<<<"o", "r", "d", "e", "r">>, serialize_SignedOrderRequest(p.order)>>,
            <<<<"o", "w", "n", "e", "r">>, JStr(p.owner)>>,
            <<<<"o", "r", "d", "e", "r", "T", "y", "p", "e">>, JStr(p.order_type)>> >>)

\* the body a client function builds: a map, a slice or a PostOrder
MapBody(entries) == [type |-> "HashMap", entries |-> entries]

SliceBody(items) == [type |-> "slice", items |-> items]

StructBody(p) == [v |-> p, type |-> "PostOrder"]

\* the values serde may hand to the formatter for a body
Serializations(body) ==
    CASE body.type = "HashMap" ->
            { serialize_HashMap(it) : it \in IterationOrders(body.entries) }
      [] body.type = "slice" -> { serialize_slice(body.items) }
      [] body.type = "PostOrder" -> { serialize_PostOrder(body.v) }

\* how many requests the caller makes one after the other
MaxRequests == 2

\* set_api_creds
SetApiCreds ==
    /\ pc = "idle"
    /\ \E c \in CredsGiven : creds' = Some(c)
    /\ UNCHANGED <<pc, call, signCalls, result, orderVars, sent, log, restVars>>

\* a client function that authenticates with the API credentials, from
\* get_l2_parameters to the request it sends; body is the body it builds
L2Call(op, method, endpoint, body) ==
    /\ pc = "idle"
    /\ \E now \in Timestamps :
          IF ~creds.some
          THEN /\ call' = [op |-> op, via |-> "client", now |-> now,
                           auth |-> "l2"]
               /\ Return(Panicked)
               /\ UNCHANGED <<sent, log>>
          ELSE \E json \in IF body.some THEN {Some(j) : j \in Serializations(body.v)}
                                        ELSE {None} :
                  LET r == create_l2_headers(
                               SignerAddress, creds.v, method, endpoint, json,
                               now)
                  IN  /\ call' = [op |-> op, via |-> "client", json |-> json,
                                  now |-> now, method |-> method,
                                  endpoint |-> endpoint, body |-> body,
                                  auth |-> "l2"]
                      /\ IF r.kind = "err"
                         THEN Return(r) /\ UNCHANGED <<sent, log>>
                         ELSE /\ Send(Request(method, endpoint, r.v.headers,
                                              r.v.body_str))
                              /\ log' = Append(log, [body |-> body,
                                                     body_str |-> r.v.body_str])
    /\ UNCHANGED <<signCalls, orderVars, creds, restVars>>

OrderIds == { <<"0", "x", "a", "1">>, <<"0", "x", "b", "2">> }

\* a SignedOrderRequest as build_signed_order returns it
PostedOrder ==
    [side |-> Str(as_str(BUY)),
     maker |-> Str(WALLET_CHECKSUM),
     taker |-> Str(ZERO_ADDRESS),
     signer |-> Str(WALLET_CHECKSUM),
     signature_type |-> U8(0),
     fee_rate_bps |-> Str(<<"0">>),
     nonce |-> Str(<<"0">>),
     token_id |-> Str(TOKEN_ID),
     expiration |-> Str(<<"0">>),
     salt |-> U64(NatDigits(1234567890)),
     signature |-> Str(<<"0", "x", "1", "b">>),
     maker_amount |-> Str(<<"3", "5", "0", "0", "0", "0", "0", "0">>),
     taker_amount |-> Str(<<"1", "0", "0", "0", "0", "0", "0", "0", "0">>)]

OrderTypes == { <<"G", "T", "C">>, <<"F", "O", "K">> }

ClientPostOrder ==
    \E order_type \in OrderTypes :
        L2Call("post_order", POST, <<"/", "o", "r", "d", "e", "r">>,
               IF creds.some
               THEN Some(StructBody(PostOrder_new(
                        PostedOrder, creds.v.api_key, order_type)))
               ELSE None)

ClientCancel ==
    \E order_id \in OrderIds :
        L2Call("cancel", DELETE, <<"/", "o", "r", "d", "e", "r">>,
               Some(MapBody(HashMap_from(<< <<<<"o", "r", "d", "e", "r", "I", "D">>, order_id>> >>))))

ClientCancelOrders ==
    \E order_ids \in {<< >>} \cup {<<a>> : a \in OrderIds}
                     \cup {<<a, b>> : a, b \in OrderIds} :
        L2Call("cancel_orders", DELETE, <<"/", "o", "r", "d", "e", "r", "s">>, Some(SliceBody(order_ids)))

ClientCancelAll == L2Call("cancel_all", DELETE, <<"/", "c", "a", "n", "c", "e", "l", "-", "a", "l", "l">>, None)

ClientCancelMarketOrders ==
    \E market \in {None, Some(<<"0", "x", "m">>)}, asset_id \in {None, Some(<<"1", "2">>)} :
        L2Call("cancel_market_orders", DELETE, <<"/", "c", "a", "n", "c", "e", "l", "-", "m", "a", "r", "k", "e", "t", "-", "o", "r", "d", "e", "r", "s">>,
               Some(MapBody(HashMap_from(
                   << <<<<"m", "a", "r", "k", "e", "t">>, unwrap_or(market, << >>)>>,
                      <<<<"a", "s", "s", "e", "t", "_", "i", "d">>, unwrap_or(asset_id, << >>)>> >>))))

ClientAreOrdersScoring ==
    \E order_ids \in {<<a>> : a \in OrderIds} :
        L2Call("are_orders_scoring", POST, <<"/", "o", "r", "d", "e", "r", "s", "-", "s", "c", "o", "r", "i", "n", "g">>, Some(SliceBody(order_ids)))

\* the caller makes the next call on the same client
NextCall ==
    /\ pc = "done"
    /\ Len(log) < MaxRequests
    /\ pc' = "idle"
    /\ call' = [op |-> "none"]
    /\ result' = NoResult
    /\ signCalls' = 0
    /\ sent' = None
    /\ UNCHANGED <<orderVars, creds, log, restVars>>

NextAuth ==
    \/ SetApiCreds
    \/ CreateApiKey
    \/ DeriveApiKey
    \/ ClientPostOrder
    \/ ClientCancel
    \/ ClientCancelOrders
    \/ ClientCancelAll
    \/ ClientCancelMarketOrders
    \/ ClientAreOrdersScoring
    \/ Response
    \/ NextCall

SpecAuth == Init /\ [][NextAuth]_vars

(***************************************************************************)
(* get_orders and get_trades: the requests of the paging loop.  A query is *)
(* what serde hands to the serializer of serde_urlencoded: a sequence or a *)
(* tuple of elements, each a pair of texts or a text of its own.           *)
(***************************************************************************)
INITIAL_CURSOR == <<"M", "A">>

END_CURSOR == <<"L", "T", "E">>

\* a (key, value) element and a string element of a query
Pair(k, v) == [k |-> k, v |-> v, elem |-> "pair"]

StrElem(text) == [text |-> text, elem |-> "str"]

\* OpenOrderParams::to_query_params / TradeParams::to_query_params: a pair
\* for every field that is there
to_query_params(p) ==
    IF p.market.some THEN << Pair(<<"m", "a", "r", "k", "e", "t">>, p.market.v) >> ELSE << >>

\* the parameters a caller passes
ParamsGiven ==
    { None, Some([market |-> None]), Some([market |-> Some(<<"0", "x", "m">>)]) }

\* the cursors a caller passes
CursorsGiven ==
    { None, Some(INITIAL_CURSOR), Some(END_CURSOR), Some(<<"M", "T", "A", "w">>) }

\* serde_urlencoded: the elements of the query are serialized one by one as
\* pairs, and an element that is not a pair is the error "unsupported pair"
urlencoded_serialize(pairs, query) ==
    IF \E i \in 1..Len(query) : query[i].elem # "pair"
    THEN Err("unsupported pair")
    ELSE Ok(pairs \o query)

\* a query whose next_cursor is handed over as one (key, value) pair
cursor_query_pair(next_cursor) == << Pair(<<"n", "e", "x", "t", "_", "c", "u", "r", "s", "o", "r">>, next_cursor) >>

\* &["next_cursor", &next_cursor]: an array of two strings
cursor_query(next_cursor) == << StrElem(<<"n", "e", "x", "t", "_", "c", "u", "r", "s", "o", "r">>), StrElem(next_cursor) >>

\* RequestBuilder::query: the pairs are added to the URL, or the builder
\* keeps the error of the serializer
RequestBuilder_query(req, query) ==
    IF req.kind = "err" THEN req
    ELSE LET r == urlencoded_serialize(req.v.query, query)
         IN  IF r.kind = "err" THEN Err("builder error")
             ELSE Ok([req.v EXCEPT !.query = r.v])

\* RequestBuilder::header on every header of the map
RequestBuilder_headers(req, headers) ==
    IF req.kind = "err" THEN req ELSE Ok([req.v EXCEPT !.headers = headers])

\* the request of one turn of the loop
PageRequest(method, endpoint, query_params, next_cursor, headers) ==
    RequestBuilder_headers(
        RequestBuilder_query(
            RequestBuilder_query(
                Ok([method |-> method, endpoint |-> endpoint,
                    headers |-> << >>, body |-> None, query |-> << >>]),
                query_params),
            cursor_query(next_cursor)),
        headers)

\* what the server answers to a page request: the next cursor, if the
\* answer has one, and the data of the page
Pages ==
    { [next_cursor |-> c, data |-> d] :
        c \in {None, Some(<<"M", "T", "A", "w">>), Some(END_CURSOR)},
        d \in { << >>, <<"a">>, <<"b", "c">> } }

\* the most pages the server has for one call
MaxPages == 3

\* the answers to the request that comes after n others: the last page the
\* server has ends the paging
PagesAfter(n) ==
    { p \in Pages : n + 1 < MaxPages \/ p.next_cursor \in {None, Some(END_CURSOR)} }

\* get_orders and get_trades up to the loop: get_l2_parameters, the headers
\* signed once, the query parameters and the cursor to start from
EnterPaged(op, endpoint) ==
    /\ pc = "idle"
    /\ \E now \in Timestamps, params \in ParamsGiven,
          next_cursor \in CursorsGiven :
          LET c == [op |-> op, via |-> "client", json |-> None, now |-> now,
                    method |-> GET, endpoint |-> endpoint, body |-> None,
                    auth |-> "l2", next_cursor |-> next_cursor,
                    params |-> params]
              r == create_l2_headers(SignerAddress, creds.v, GET, endpoint,
                                     None, now)
          IN  /\ call' = c
              /\ IF ~creds.some THEN Return(Panicked) /\ pager' = pager
                 ELSE IF r.kind = "err" THEN Return(r) /\ pager' = pager
                 ELSE /\ pager' = [cursor |-> unwrap_or(next_cursor,
                                                        INITIAL_CURSOR),
                                   output |-> << >>, requests |-> << >>]
                      /\ pc' = "paging"
                      /\ result' = result
    /\ UNCHANGED <<signCalls, orderVars, authVars, market_tick, threads>>

GetOrders == EnterPaged("get_orders", <<"/", "d", "a", "t", "a", "/", "o", "r", "d", "e", "r", "s">>)

GetTrades == EnterPaged("get_trades", <<"/", "d", "a", "t", "a", "/", "t", "r", "a", "d", "e", "s">>)

\* what a page adds to the output: get_orders extends it with the orders of
\* the page, get_trades pushes the data of the page as one value
Collected(op, output, data) ==
    IF op = "get_orders" THEN output \o data ELSE Append(output, data)

\* one turn of the loop: the test of the cursor, the request, its sending,
\* and the answer taken apart
FetchPage ==
    /\ pc = "paging"
    /\ IF pager.cursor = END_CURSOR
       THEN Return(Ok(pager.output)) /\ UNCHANGED <<pager, sent>>
       ELSE LET headers ==
                    create_l2_headers(SignerAddress, creds.v, GET,
                                      call.endpoint, None, call.now).v.headers
                query_params ==
                    IF call.params.some THEN to_query_params(call.params.v)
                    ELSE << >>
                r == PageRequest(GET, call.endpoint, query_params,
                                 pager.cursor, headers)
            IN  IF r.kind = "err"
                THEN Return(r) /\ UNCHANGED <<pager, sent>>
                ELSE /\ sent' = Some(r.v)
                     /\ \/ /\ Return(Err("request failed"))
                           /\ pager' = [pager EXCEPT
                                          !.requests = Append(@, r.v)]
                        \/ \E page \in PagesAfter(Len(pager.requests)) :
                              IF ~page.next_cursor.some
                              THEN /\ Return(Panicked)
                                   /\ pager' = [pager EXCEPT
                                                  !.requests = Append(@, r.v)]
                              ELSE /\ pager' =
                                        [cursor |-> page.next_cursor.v,
                                         output |-> Collected(call.op,
                                                       pager.output, page.data),
                                         requests |-> Append(pager.requests,
                                                             r.v)]
                                   /\ pc' = pc
                                   /\ result' = result
    /\ UNCHANGED <<call, signCalls, orderVars, creds, log, market_tick, threads>>

NextPager ==
    \/ SetApiCreds
    \/ GetOrders
    \/ GetTrades
    \/ FetchPage

SpecPager == Init /\ [][NextPager]_vars

(***************************************************************************)
(* Exact rational arithmetic in which the properties are stated:           *)
(* [neg, n, d] is (-1)^neg * n / d.                                        *)
(***************************************************************************)
Pow10D(k) == Shift10(<<1>>, k)

RatOf(x) == [n |-> x.m, d |-> Pow10D(x.s), neg |-> x.neg /\ x.m # << >>]

RatOfUnits(u) == [n |-> u, d |-> Pow10D(6), neg |-> FALSE]

RatSign(x) == IF x.n = << >> THEN 0 ELSE IF x.neg THEN -1 ELSE 1

RatCmp(x, y) ==
    IF RatSign(x) # RatSign(y) THEN (IF RatSign(x) < RatSign(y) THEN -1 ELSE 1)
    ELSE RatSign(x) * NatCmp(NatMul(x.n, y.d), NatMul(y.n, x.d))

RatMul(x, y) ==
    [n |-> NatMul(x.n, y.n), d |-> NatMul(x.d, y.d), neg |-> x.neg # y.neg]

\* x / y for y # 0
RatDiv(x, y) ==
    [n |-> NatMul(x.n, y.d), d |-> NatMul(x.d, y.n), neg |-> x.neg # y.neg]

RatAdd(x, y) ==
    LET a == NatMul(x.n, y.d)
        b == NatMul(y.n, x.d)
        d == NatMul(x.d, y.d)
    IN  IF x.neg = y.neg THEN [n |-> NatAdd(a, b), d |-> d, neg |-> x.neg]
        ELSE IF NatCmp(a, b) >= 0 THEN [n |-> NatSub(a, b), d |-> d, neg |-> x.neg]
        ELSE [n |-> NatSub(b, a), d |-> d, neg |-> y.neg]

RatNeg(x) == [x EXCEPT !.neg = ~x.neg]

\* floor(|x| * 10^k) and what is left over
ScaledFloor(x, k) == NatDivMod(NatMul(x.n, Pow10D(k)), x.d)

\* x has more than k fractional digits
MoreDigitsThan(x, k) == ScaledFloor(x, k).r # << >>

\* x cut to k places toward zero
TruncAt(x, k) ==
    [n |-> ScaledFloor(x, k).q, d |-> Pow10D(k), neg |-> x.neg]

\* x rounded to k places, to the nearest and toward zero on a tie
HalfTowardZeroAt(x, k) ==
    LET f  == ScaledFloor(x, k)
        up == NatCmp(NatAdd(f.r, f.r), x.d) > 0
    IN  [n |-> IF up THEN NatAdd(f.q, <<1>>) ELSE f.q, d |-> Pow10D(k), neg |-> x.neg]

\* x rounded to k places away from zero
AwayFromZeroAt(x, k) ==
    LET f == ScaledFloor(x, k)
    IN  [n |-> IF f.r # << >> THEN NatAdd(f.q, <<1>>) ELSE f.q, d |-> Pow10D(k),
         neg |-> x.neg]

\* the amount-precision repair at amount_dp places
Repair(x, amount_dp) ==
    IF MoreDigitsThan(x, amount_dp)
    THEN LET y == AwayFromZeroAt(x, amount_dp + 4)
         IN  IF MoreDigitsThan(y, amount_dp) THEN TruncAt(y, amount_dp) ELSE y
    ELSE x

\* a u32 amount u is exactly 10^6 * x
IsUnitsOf(u, x) == RatCmp(RatOfUnits(u), x) = 0

\* u is a multiple of 10^k
MultipleOfPow10(u, k) == \A i \in 1..k : i <= Len(u) => u[i] = 0

\* the k with tick = 10^-k, for the supported tick sizes
TickDp(tick) == CHOOSE k \in 1..4 : RatCmp(RatOf(tick), RatOf(Dec(1, k))) = 0

Supported(tick) == \E k \in 1..4 : RatCmp(RatOf(tick), RatOf(Dec(1, k))) = 0

(***************************************************************************)
(* Properties of the market-price estimator.                               *)
(***************************************************************************)
\* size * price summed over the first i levels
RECURSIVE Notional(_, _)
Notional(levels, i) ==
    IF i = 0 THEN RatOf(ZERO)
    ELSE RatAdd(Notional(levels, i - 1),
                RatMul(RatOf(levels[i].size), RatOf(levels[i].price)))

Reaches(levels, i, target) == RatCmp(Notional(levels, i), RatOf(target)) >= 0

Estimated == call.op = "create_market_order" /\ book.some

BookA == <<Level(Dec(5, 1), Dec(10, 0)), Level(Dec(6, 1), Dec(10, 0))>>

BookB == <<Level(Dec(5, 1), Dec(3, 0)), Level(Dec(6, 1), Dec(10, 0))>>

BookC == <<Level(Dec(5, 1), Dec(1, 0))>>

LiquidityError == result = Err("Not enough liquidity") /\ ~price.some

\* C1: the estimator returns the price of the first level whose running sum
\* of size * price reaches the target, and the liquidity error exactly when no
\* level does (so for every empty book); [(0.5,3),(0.6,10)] with target 5
\* gives 0.6 and [(0.5,1)] with target 10 gives the error.
C1_EstimateFirstReachingLevel ==
    Estimated =>
        LET L == book.v
            t == call.amount
            hit == {i \in 1..Len(L) : Reaches(L, i, t)}
        IN  /\ hit # {} =>
                /\ price.some
                /\ \E i \in hit : /\ \A j \in hit : i <= j
                                  /\ price.v = L[i].price
            /\ hit = {} => LiquidityError
            /\ L = << >> => LiquidityError
            /\ (L = BookB /\ t = Dec(5, 0)) => price = Some(Dec(6, 1))
            /\ (L = BookC /\ t = Dec(10, 0)) => LiquidityError

\* both outcomes of C1 happen: a price from the second level, and the error
C1_Witness ==
    /\ Estimated
    /\ book.v = BookB
    /\ call.amount = Dec(5, 0)
    /\ price = Some(Dec(6, 1))

\* C2 as stated: [(0.5,10),(0.6,10)] with target 7 gives 0.5.
C2_FirstLevelCovers ==
    (Estimated /\ book.v = BookA /\ call.amount = Dec(7, 0))
        => price = Some(Dec(5, 1))

\* C2, amended: [(0.5,10),(0.6,10)] with target 7 gives 0.6: the first level
\* is worth 10 * 0.5 = 5 < 7, and the running sum reaches 11 at the second.
C2_SecondLevelCovers ==
    (Estimated /\ book.v = BookA /\ call.amount = Dec(7, 0))
        => /\ price = Some(Dec(6, 1))
           /\ ~Reaches(BookA, 1, Dec(7, 0))
           /\ Reaches(BookA, 2, Dec(7, 0))

C2_Witness ==
    /\ Estimated
    /\ book.v = BookA
    /\ call.amount = Dec(7, 0)
    /\ price.some

(***************************************************************************)
(* Properties of the price-range guard.                                    *)
(***************************************************************************)
\* tick <= p <= 1 - tick
InLegalRange(p, tick) ==
    /\ RatCmp(RatOf(tick), RatOf(p)) <= 0
    /\ RatCmp(RatOf(p), RatAdd(RatOf(ONE), RatNeg(RatOf(tick)))) <= 0

RangeRejected == result = Err("Price is not in range of tick_size")

\* the guard has been evaluated in this call
Guarded == pc \in {"amounts", "contract", "build", "sign"} \/ signCalls > 0
              \/ rounded > 0 \/ RangeRejected

\* C3: is_price_in_range(price, tick_size) is true if and only if
\* tick_size <= price <= 1 - tick_size, boundaries included.
C3_RangeIffBetweenTicks ==
    (price.some /\ opts.tick_size.some) =>
        /\ is_price_in_range(price.v, opts.tick_size.v)
              <=> InLegalRange(price.v, opts.tick_size.v)
        /\ Guarded => (RangeRejected <=> ~InLegalRange(price.v, opts.tick_size.v))

\* a price exactly at the upper boundary passes the guard
C3_Witness ==
    /\ pc = "amounts"
    /\ price = Some(Dec(99, 2))
    /\ opts.tick_size = Some(Dec(1, 2))

\* C4: when the limit or estimated price is outside [tick, 1 - tick] the call
\* returns a rejection, and neither the amount rounding nor the signer has
\* been invoked for it: the range check precedes any signing work.
C4_RangeCheckBeforeSigning ==
    (price.some /\ opts.tick_size.some
        /\ ~InLegalRange(price.v, opts.tick_size.v)) =>
        /\ rounded = 0
        /\ signCalls = 0
        /\ ~amounts.some
        /\ pc \in {"range_check", "done"}
        /\ pc = "done" => RangeRejected

\* an out-of-range market price has been rejected
C4_Witness ==
    /\ pc = "done"
    /\ RangeRejected
    /\ call.op = "create_market_order"
    /\ ~InLegalRange(price.v, opts.tick_size.v)

(***************************************************************************)
(* Properties of the amount rounding.                                      *)
(***************************************************************************)
Tick == opts.tick_size.v

LimitRounded ==
    call.op = "create_order" /\ amounts.some /\ Supported(Tick)

MarketRounded ==
    call.op = "create_market_order" /\ amounts.some /\ Supported(Tick)

\* the size and the price of a limit order as the pipeline is to round them
SizeCut == TruncAt(RatOf(call.size), 2)

PriceRounded == HalfTowardZeroAt(RatOf(price.v), TickDp(Tick))

\* the quote leg of a limit order: the repaired product, at 2 places
LimitNotional ==
    HalfTowardZeroAt(Repair(RatMul(SizeCut, PriceRounded), TickDp(Tick) + 2), 2)

Magnitude(x) == [x EXCEPT !.neg = FALSE]

ExampleOrder ==
    /\ call.side = BUY
    /\ call.size = Dec(100, 0)
    /\ call.price = Dec(35, 2)
    /\ Tick = Dec(1, 2)

\* C5: for a BUY limit order at a supported tick size the taker amount is
\* 10^6 * trunc(size, size_dp) and the maker amount is
\* 10^6 * half_toward_zero(repair(trunc(size, size_dp) *
\* half_toward_zero(price, price_dp)), 2); for tick 0.01, price 0.35, size 100
\* they are 35000000 and 100000000, with at most 2 and 4 fractional digits,
\* and maker / 10^6 is size * price within the tick size.
C5_BuyLimitAmounts ==
    (LimitRounded /\ call.side = BUY) =>
        /\ IsUnitsOf(amounts.v.taker, SizeCut)
        /\ IsUnitsOf(amounts.v.maker, LimitNotional)
        /\ ExampleOrder =>
              /\ amounts.v.maker = NatDigits(35000000)
              /\ amounts.v.taker = NatDigits(100000000)
              /\ MultipleOfPow10(amounts.v.maker, 4)
              /\ MultipleOfPow10(amounts.v.taker, 2)
              /\ RatCmp(Magnitude(RatAdd(RatOfUnits(amounts.v.maker),
                                         RatNeg(RatMul(RatOf(call.size),
                                                       RatOf(call.price))))),
                        RatOf(Tick)) <= 0

\* the example order of C5 has its amounts
C5_Witness == LimitRounded /\ ExampleOrder

OtherSide == IF call.side = BUY THEN SELL ELSE BUY

\* C6: for identical (size, price, tick size) BUY and SELL clamp opposite
\* legs: BUY the maker to 2 places and the taker to 4, SELL the maker to 4
\* and the taker to 2, both half toward zero.
C6_SidesSwapPrecision ==
    (call.op = "create_order" /\ price.some /\ opts.tick_size.some) =>
        /\ LET c == clamp_amount_precision(call.side, call.price, call.size)
               md == IF call.side = BUY THEN 2 ELSE 4
               td == IF call.side = BUY THEN 4 ELSE 2
           IN  /\ RatCmp(RatOf(c[1]), HalfTowardZeroAt(RatOf(call.price), md)) = 0
               /\ RatCmp(RatOf(c[2]), HalfTowardZeroAt(RatOf(call.size), td)) = 0
               /\ ~MoreDigitsThan(RatOf(c[1]), md)
               /\ ~MoreDigitsThan(RatOf(c[2]), td)
        /\ LimitRounded =>
              /\ call.side = BUY => /\ MultipleOfPow10(amounts.v.maker, 4)
                                    /\ MultipleOfPow10(amounts.v.taker, 2)
              /\ call.side = SELL => /\ MultipleOfPow10(amounts.v.maker, 2)
                                     /\ MultipleOfPow10(amounts.v.taker, 4)
              /\ LET o == get_order_amounts(OtherSide, call.size, call.price,
                                            RoundConfigOf(Tick).v)
                 IN  /\ ~o.panic
                     /\ o.v.maker = amounts.v.taker
                     /\ o.v.taker = amounts.v.maker

\* a SELL order whose quote leg had more than 2 places before the clamp
C6_Witness ==
    /\ LimitRounded
    /\ call.side = SELL
    /\ MoreDigitsThan(RatMul(SizeCut, PriceRounded), 2)

IsU32(u) ==
    /\ \A i \in 1..Len(u) : u[i] \in 0..9
    /\ NatCmp(u, U32_MAX) <= 0

\* C7: every limit or market order that reaches the signing step has maker
\* and taker amounts that are non-negative integers, the quote leg a multiple
\* of 10^4 units and the token leg a multiple of 10^2 units.
C7_SignedAmountsClamped ==
    (pc = "sign" \/ signCalls > 0) =>
        /\ amounts.some
        /\ IsU32(amounts.v.maker)
        /\ IsU32(amounts.v.taker)
        /\ OrderSide = BUY => /\ MultipleOfPow10(amounts.v.maker, 4)
                              /\ MultipleOfPow10(amounts.v.taker, 2)
        /\ OrderSide = SELL => /\ MultipleOfPow10(amounts.v.taker, 4)
                               /\ MultipleOfPow10(amounts.v.maker, 2)

\* a market order at tick 0.0001 whose quotient does not terminate is signed
C7_Witness ==
    /\ signCalls = 1
    /\ MarketRounded
    /\ Tick = Dec(1, 4)
    /\ price.v = Dec(33, 2)
    /\ call.amount = Dec(1, 0)

\* the maker and taker amounts of a market order
MarketMaker == TruncAt(RatOf(call.amount), 2)

MarketTaker ==
    HalfTowardZeroAt(Repair(RatDiv(MarketMaker, PriceRounded), TickDp(Tick) + 2), 4)

\* the clamped (maker, taker) the current call is to convert to token units
ClampedAmounts ==
    IF call.op = "create_market_order"
    THEN <<HalfTowardZeroAt(MarketMaker, 2), MarketTaker>>
    ELSE IF call.side = BUY THEN <<LimitNotional, HalfTowardZeroAt(SizeCut, 4)>>
    ELSE <<HalfTowardZeroAt(SizeCut, 4), LimitNotional>>

\* 4294.967295
MaxAmount ==
    [n |-> Reverse(<<4,2,9,4,9,6,7,2,9,5>>), d |-> Pow10D(6), neg |-> FALSE]

NotU32(x) == RatSign(x) < 0 \/ RatCmp(x, MaxAmount) > 0

\* the rounding of this call ran on an amount that does not fit
RoundedOutOfU32 ==
    /\ rounded > 0
    /\ Supported(Tick)
    /\ LET c == ClampedAmounts IN NotU32(c[1]) \/ NotU32(c[2])

\* C8: when a clamped amount times 10^6 does not fit a u32 (above
\* 4294.967295, or negative) the call is rejected: no SignedOrderRequest is
\* returned, the signer is not invoked, no wrapped amount is produced.
C8_U32OverflowRejected ==
    RoundedOutOfU32 =>
        /\ pc = "done"
        /\ result = Panicked
        /\ ~amounts.some
        /\ signCalls = 0

\* a SELL of 4294.97 tokens: the maker leg is 4294970000 > 2^32 - 1
C8_Witness ==
    /\ RoundedOutOfU32
    /\ call.op = "create_order"
    /\ call.side = SELL
    /\ call.size = Dec(429497, 2)

\* C9: for a market order the maker amount is trunc(notional, size_dp) and
\* the taker amount is maker / half_toward_zero(price, price_dp), repaired at
\* amount_dp, clamped as a BUY (2 and 4 places, half toward zero) and scaled
\* by 10^6.
C9_MarketAmounts ==
    MarketRounded =>
        /\ IsUnitsOf(amounts.v.maker, HalfTowardZeroAt(MarketMaker, 2))
        /\ IsUnitsOf(amounts.v.taker, MarketTaker)

\* a market order whose quotient has more than amount_dp digits and was cut
C9_Witness ==
    /\ MarketRounded
    /\ MoreDigitsThan(RatDiv(MarketMaker, PriceRounded), TickDp(Tick) + 2)
    /\ RatCmp(RatOfUnits(amounts.v.taker), RatDiv(MarketMaker, PriceRounded)) < 0

\* a rational with at most k fractional digits as the Decimal of scale k
DecAt(x, k) == [s |-> k, neg |-> x.neg, m |-> ScaledFloor(x, k).q]

\* C10: the rounding is idempotent at every supported tick size: applied to
\* the size cut to size_dp and the price rounded to price_dp, with the same
\* side and tick size, it returns the same (maker, taker).
C10_RoundingIdempotent ==
    LimitRounded =>
        LET again == get_order_amounts(call.side, DecAt(SizeCut, 2),
                                       DecAt(PriceRounded, TickDp(Tick)),
                                       RoundConfigOf(Tick).v)
        IN  /\ ~again.panic
            /\ again.v = amounts.v

\* amounts of an order whose size and price both had excess digits
C10_Witness ==
    /\ LimitRounded
    /\ MoreDigitsThan(RatOf(call.size), 2)
    /\ MoreDigitsThan(RatOf(call.price), TickDp(Tick))

(***************************************************************************)
(* Properties of the options the OrderBuilder is given.                    *)
(***************************************************************************)
\* the OrderBuilder was called with these options as they are
BuilderCalled == call.op # "none" /\ call.via = "builder"

OptionMissing == ~opts.tick_size.some \/ ~opts.neg_risk.some

\* C11: a call of the OrderBuilder whose options lack the tick size or the
\* neg-risk flag is rejected with an error as its first step, whatever the
\* other arguments: no amounts have been computed, the signer has not been
\* invoked, and what the call returns is an error.
C11_MissingOptionRejectedFirst ==
    (BuilderCalled /\ OptionMissing) =>
        /\ rounded = 0
        /\ ~amounts.some
        /\ signCalls = 0
        /\ pc = "done" => result.kind = "err"

\* a call without the neg-risk flag whose amounts have been computed
C11_Witness ==
    /\ BuilderCalled
    /\ ~opts.neg_risk.some
    /\ rounded = 1
    /\ amounts.some
    /\ result = Err("Cannot create order without neg_risk")

\* the call got past the price-range guard of the client
PastGuard ==
    /\ call.op # "none"
    /\ call.via = "client"
    /\ price.some
    /\ opts.tick_size.some
    /\ opts.neg_risk.some
    /\ InLegalRange(price.v, Tick)
    /\ pc \notin {"range_check", "get_order_book", "get_neg_risk",
                   "resolve_tick_size"}

\* C12: a call whose tick size is concrete but not one of 0.1, 0.01, 0.001,
\* 0.0001 ends with an Error result: no SignedOrderRequest is returned and
\* the signer is not invoked.
C12_UnsupportedTickIsError ==
    (PastGuard /\ ~Supported(Tick)) =>
        /\ signCalls = 0
        /\ result.kind # "ok"
        /\ pc = "done" => result.kind = "err"

\* a limit order at tick size 0.5 and price 0.5 has ended in a panic
C12_Witness ==
    /\ PastGuard
    /\ call.op = "create_order"
    /\ Tick = Dec(5, 1)
    /\ pc = "done"
    /\ result = Panicked

(***************************************************************************)
(* Properties of the signed order and of the request built from it.        *)
(***************************************************************************)
\* the address a text spells
AddressSpelled(text) == (CHOOSE e \in AddressBook : text \in e.texts).addr

\* C13: every signed order has maker = the funder of the builder (the
\* signer's own address when none was configured), signer = the wallet
\* address, taker = the address in the extras (the null address, with nonce 0
\* and fee 0, under default extras), side 0 for BUY and 1 for SELL, and
\* signatureType = the scheme tag of the builder (Eoa 0 by default,
\* PolyProxy 1, PolyGnosisSafe 2).
C13_SignedOrderFields ==
    /\ \A f \in {None, Some("funder")} :
          /\ OrderBuilder_new(SignerAddress, None, f).sig_type = "Eoa"
          /\ \A t \in SigTypes :
                LET b == OrderBuilder_new(SignerAddress, Some(t), f)
                IN  /\ b.sig_type = t
                    /\ b.signer = SignerAddress
                    /\ b.funder = IF f.some THEN "funder" ELSE SignerAddress
                    /\ build_order_builder(SignerAddress,
                                           ClientSignerConfig(t, f)) = b
    /\ order.some =>
          /\ order.v.maker = builder.funder
          /\ order.v.signer = SignerAddress
          /\ IF call.extras.some
             THEN /\ order.v.taker = AddressSpelled(call.extras.v.taker)
                  /\ order.v.nonce = call.extras.v.nonce
                  /\ order.v.feeRateBps = call.extras.v.fee_rate_bps
             ELSE /\ order.v.taker = "zero"
                  /\ to_checksum(order.v.taker) = ZERO_ADDRESS
                  /\ order.v.nonce = << >>
                  /\ order.v.feeRateBps = << >>
          /\ call.op = "create_order" =>
                order.v.side = (IF call.side = BUY THEN 0 ELSE 1)
          /\ call.op = "create_market_order" => order.v.side = 0
          /\ builder.sig_type = "Eoa" => order.v.signatureType = 0
          /\ builder.sig_type = "PolyProxy" => order.v.signatureType = 1
          /\ builder.sig_type = "PolyGnosisSafe" => order.v.signatureType = 2

\* a SELL order of a PolyGnosisSafe builder with a funder and an override
\* taker has been signed
C13_Witness ==
    /\ signCalls = 1
    /\ order.some
    /\ call.op = "create_order"
    /\ call.side = SELL
    /\ call.extras.some
    /\ builder.funder = "funder"
    /\ builder.sig_type = "PolyGnosisSafe"

\* the keys of the numeric fields of a serialized SignedOrderRequest
StringKeys ==
    { <<"t", "o", "k", "e", "n", "I", "d">>,
      <<"m", "a", "k", "e", "r", "A", "m", "o", "u", "n", "t">>,
      <<"t", "a", "k", "e", "r", "A", "m", "o", "u", "n", "t">>,
      <<"e", "x", "p", "i", "r", "a", "t", "i", "o", "n">>,
      <<"n", "o", "n", "c", "e">>,
      <<"f", "e", "e", "R", "a", "t", "e", "B", "p", "s">> }

NumberKeys ==
    { <<"s", "a", "l", "t">>,
      <<"s", "i", "g", "n", "a", "t", "u", "r", "e", "T", "y", "p", "e">> }

IsDecimalString(s) ==
    Len(s) > 0 /\ \A i \in 1..Len(s) : IsDigitChar(s[i])

Returned == serialize_SignedOrderRequest(result.v)

Spelled(k) == Numeral(JsonField(Returned, k).s)

L1Called == call.op \in {"create_api_key", "derive_api_key"}

L1HeaderNames ==
    {POLY_ADDR_HEADER, POLY_SIG_HEADER, POLY_TS_HEADER, POLY_NONCE_HEADER}

SignerFailed == result.kind = "err" /\ result.msg = "signer failed"

\* C15: create_l1_headers has the wallet sign a payload made of the
\* timestamp and the nonce, the caller's or zero when none is given; when
\* the wallet signs, exactly the headers address, signature, timestamp and
\* nonce are produced and the nonce header spells the nonce that was signed;
\* when the wallet fails, the call returns the error and no header set
\* exists, so no request is sent.
C15_L1Headers ==
    L1Called =>
        /\ signCalls = 1
        /\ sent.some =>
              LET h == sent.v.headers
                  payload == h[POLY_SIG_HEADER].payload
              IN  /\ DOMAIN h = L1HeaderNames
                  /\ h[POLY_ADDR_HEADER] = WALLET_LOWER
                  /\ h[POLY_TS_HEADER] = to_string(call.now)
                  /\ h[POLY_SIG_HEADER].signed_by = SignerAddress
                  /\ payload.timestamp = h[POLY_TS_HEADER]
                  /\ payload.nonce = unwrap_or(call.nonce, << >>)
                  /\ from_str_radix(h[POLY_NONCE_HEADER]) = Some(payload.nonce)
                  /\ ~call.nonce.some => h[POLY_NONCE_HEADER] = <<"0">>
        /\ (pc = "done" /\ ~sent.some) => SignerFailed
        /\ (pc = "done" /\ SignerFailed) => ~sent.some

\* a caller's nonce 7 was signed and is carried by the nonce header
C15_Witness ==
    /\ L1Called
    /\ call.nonce = Some(NatDigits(7))
    /\ sent.some
    /\ sent.v.headers[POLY_NONCE_HEADER] = <<"7">>
    /\ sent.v.headers[POLY_SIG_HEADER].payload.nonce = NatDigits(7)

L2Ops ==
    {"post_order", "cancel", "cancel_orders", "cancel_all",
     "cancel_market_orders", "are_orders_scoring"}

L2Called == call.op \in L2Ops

L2HeaderNames ==
    {POLY_ADDR_HEADER, POLY_SIG_HEADER, POLY_TS_HEADER, POLY_API_KEY_HEADER,
     POLY_PASS_HEADER}

\* timestamp, method and path of the call, then the body if there is one
MessageOver(body) ==
    to_string(call.now) \o call.method \o call.endpoint
    \o (IF body.some THEN body.v ELSE << >>)

\* the signature a verifier that holds the key computes over a body
VerifierSignature(body) ==
    URL_SAFE_encode(HmacSha256(URL_SAFE_decode(creds.v.secret).v,
                               MessageOver(body)))

\* the body of the test of build_hmac_signature
TestBody == JObj(<< <<<<"h", "a", "s", "h">>, JStr(<<"0", "x", "1", "2", "3">>)>> >>)

\* C16: the signature of the API-credential headers is the encoded
\* HMAC-SHA256, keyed with the decoded secret, of timestamp, method and path
\* followed by the canonical body string exactly when the request has a
\* body; build_hmac_signature on the structured body gives what
\* build_hmac_signature_from_str gives on its canonical string; and the
\* headers carry the API key, the passphrase, the timestamp and this
\* signature.
C16_L2Signature ==
    /\ URL_SAFE_decode(TEST_SECRET) = Some([i \in 1..32 |-> 0])
    /\ URL_SAFE_decode(<<"-", "_", "-", "_">>) = Some(<<251, 255, 191>>)
    /\ build_hmac_signature(TEST_SECRET, NatDigits(1000000),
                            <<"t", "e", "s", "t", "-", "s", "i", "g", "n">>,
                            <<"/", "o", "r", "d", "e", "r", "s">>, Some(TestBody))
         = Ok(URL_SAFE_encode(HmacSha256([i \in 1..32 |-> 0],
                <<"1", "0", "0", "0", "0", "0", "0", "t", "e", "s", "t", "-",
                  "s", "i", "g", "n", "/", "o", "r", "d", "e", "r", "s", "{",
                  "\"", "h", "a", "s", "h", "\"", ":", " ", "\"", "0", "x",
                  "1", "2", "3", "\"", "}">>)))
    /\ (L2Called /\ sent.some) =>
          LET h == sent.v.headers
              secret == creds.v.secret
          IN  /\ URL_SAFE_decode(secret).some
              /\ sent.v.body.some <=> call.json.some
              /\ sent.v.body.some =>
                    sent.v.body.v = format_hmac_body(call.json.v).v
              /\ DOMAIN h = L2HeaderNames
              /\ h[POLY_SIG_HEADER] = VerifierSignature(sent.v.body)
              /\ build_hmac_signature(secret, call.now, call.method,
                                      call.endpoint, call.json)
                   = build_hmac_signature_from_str(
                         secret, call.now, call.method, call.endpoint,
                         sent.v.body)
              /\ build_hmac_signature(secret, call.now, call.method,
                                      call.endpoint, call.json)
                   = Ok(h[POLY_SIG_HEADER])
              /\ h[POLY_API_KEY_HEADER] = creds.v.api_key
              /\ h[POLY_PASS_HEADER] = creds.v.passphrase
              /\ h[POLY_TS_HEADER] = to_string(call.now)
              /\ h[POLY_ADDR_HEADER] = WALLET_LOWER

\* a cancel request signed with the secret of the test, and a request
\* without a body
C16_Witness ==
    /\ call.op = "cancel"
    /\ creds = Some(ApiCreds(<<"k", "e", "y", "-", "1">>, TEST_SECRET, <<"p", "a", "s", "s">>))
    /\ sent.some
    /\ sent.v.body = Some(<<"{", "\"", "o", "r", "d", "e", "r", "I", "D", "\"", ":", " ", "\"", "0", "x", "a", "1", "\"", "}">>)
    /\ sent.v.headers[POLY_SIG_HEADER].base64url.message
         = <<"1", "0", "0", "0", "0", "0", "0", "D", "E", "L", "E", "T", "E", "/", "o", "r", "d", "e", "r">>
            \o sent.v.body.v

\* the message the signature header was computed over
SignedMessage == sent.v.headers[POLY_SIG_HEADER].base64url.message

\* what create_l2_headers returned to the client function
ReturnedL2 ==
    create_l2_headers(SignerAddress, creds.v, call.method, call.endpoint,
                      call.json, call.now)

\* C17: create_l2_headers returns next to the headers exactly the canonical
\* body string that went into the HMAC, and no body exactly when none was
\* given; post_order, cancel, cancel_orders, cancel_market_orders and
\* are_orders_scoring transmit that string unchanged, so the bytes sent are
\* the bytes signed.
C17_SentBodyIsSignedBody ==
    (L2Called /\ sent.some) =>
        /\ ReturnedL2.kind = "ok"
        /\ ReturnedL2.v.body_str.some <=> call.json.some
        /\ ReturnedL2.v.headers[POLY_SIG_HEADER].base64url.message
             = MessageOver(ReturnedL2.v.body_str)
        /\ sent.v.body = ReturnedL2.v.body_str
        /\ sent.v.headers = ReturnedL2.v.headers
        /\ SignedMessage = MessageOver(sent.v.body)
        /\ sent.v.body.some <=> call.op # "cancel_all"

\* a posted order whose body is in the signed message
C17_Witness ==
    /\ call.op = "post_order"
    /\ sent.some
    /\ sent.v.body.some
    /\ Len(sent.v.body.v) > Len(WALLET_CHECKSUM)
    /\ SignedMessage
         = <<"1", "7", "0", "0", "0", "0", "0", "0", "0", "0", "P", "O", "S", "T", "/", "o", "r", "d", "e", "r">>
            \o sent.v.body.v

\* a verifier that holds the secret recomputes the HMAC over the timestamp,
\* method and path of the request and the body it received
VerifierAccepts(body, signature) ==
    build_hmac_signature_from_str(creds.v.secret, call.now, call.method,
                                  call.endpoint, body) = Ok(signature)

\* the texts that differ from t in one byte, lack its last byte, or have
\* one byte more
Altered(t) ==
    { [t EXCEPT ![i] = IF @ = "x" THEN "y" ELSE "x"] : i \in 1..Len(t) }
    \cup { SubSeq(t, 1, Len(t) - 1), t \o <<" ">> }

\* C18: with secret, timestamp, method and path fixed, a body that differs
\* from the transmitted canonical body in any byte gives a different signed
\* message: the verifier accepts the signature over the body that was sent
\* and rejects it over every altered body and over the differing body of any
\* other request (HMAC giving different digests for different messages).
C18_AlteredBodyRejected ==
    (L2Called /\ sent.some /\ sent.v.body.some) =>
        LET signature == sent.v.headers[POLY_SIG_HEADER]
        IN  /\ VerifierAccepts(sent.v.body, signature)
            /\ \A t \in Altered(sent.v.body.v) :
                  ~VerifierAccepts(Some(t), signature)
            /\ ~VerifierAccepts(None, signature)
            /\ \A i \in 1..Len(log) :
                  log[i].body_str # sent.v.body =>
                      ~VerifierAccepts(log[i].body_str, signature)

\* a second request whose body differs from the body of the first
C18_Witness ==
    /\ L2Called
    /\ sent.some
    /\ Len(log) = MaxRequests
    /\ log[1].body_str = Some(<<"{", "\"", "o", "r", "d", "e", "r", "I", "D", "\"", ":", " ", "\"", "0", "x", "a", "1", "\"", "}">>)
    /\ sent.v.body = Some(<<"{", "\"", "o", "r", "d", "e", "r", "I", "D", "\"", ":", " ", "\"", "0", "x", "b", "2", "\"", "}">>)

(***************************************************************************)
(* Properties of the canonical body string.                                *)
(***************************************************************************)
\* requests i and j of the log carry the same logical body
SameBody(i, j) ==
    /\ log[i].body.some
    /\ log[j].body.some
    /\ log[i].body.v.type = log[j].body.v.type
    /\ log[i].body.v = log[j].body.v

\* C19: format_hmac_body is deterministic: the same logical body gives the
\* same byte sequence, entries separated by ", " and key and value by ": ",
\* across repeated calls and for every body the client signs, the maps of
\* several keys it builds itself included.
C19_CanonicalDeterministic ==
    \A i, j \in 1..Len(log) :
        SameBody(i, j) => log[i].body_str = log[j].body_str

\* cancel_market_orders was called twice with the same market and asset id
\* and the two canonical strings differ
C19_Witness ==
    /\ Len(log) = MaxRequests
    /\ log[1].body = Some(MapBody({<<<<"m", "a", "r", "k", "e", "t">>, <<"0", "x", "m">>>>,
                                   <<<<"a", "s", "s", "e", "t", "_", "i", "d">>, <<"1", "2">>>>}))
    /\ log[2].body = log[1].body
    /\ log[1].body_str = Some(<<"{", "\"", "m", "a", "r", "k", "e", "t", "\"",
                             ":", " ", "\"", "0", "x", "m", "\"", ",", " ",
                             "\"", "a", "s", "s", "e", "t", "_", "i", "d",
                             "\"", ":", " ", "\"", "1", "2", "\"", "}">>)
    /\ log[2].body_str = Some(<<"{", "\"", "a", "s", "s", "e", "t", "_", "i",
                             "d", "\"", ":", " ", "\"", "1", "2", "\"", ",",
                             " ", "\"", "m", "a", "r", "k", "e", "t", "\"",
                             ":", " ", "\"", "0", "x", "m", "\"", "}">>)

(***************************************************************************)
(* Properties of a secret that does not decode.                            *)
(***************************************************************************)
\* the secrets that are no URL-safe base64: a symbol of the standard
\* alphabet, a missing padding, bits beyond the last byte
Undecodable ==
    { <<"+", "/", "+", "/">>, <<"A", "A", "A">>, <<"A", "B", "=", "=">> }

\* C20: when the API secret is not decodable as URL-safe base64,
\* build_hmac_signature_from_str and create_l2_headers return an error for
\* the call: no signature, no header set and no canonical body reach the
\* caller, which returns the error and sends nothing.
C20_UndecodableSecretIsError ==
    /\ \A x \in Secrets : URL_SAFE_decode(x).some <=> x \notin Undecodable
    /\ (L2Called /\ creds.some /\ creds.v.secret \in Undecodable) =>
          LET body_str ==
                  IF call.json.some
                  THEN Some(format_hmac_body(call.json.v).v) ELSE None
              signature ==
                  build_hmac_signature_from_str(
                      creds.v.secret, call.now, call.method, call.endpoint,
                      body_str)
          IN  /\ signature = Err("Can't decode secret to base64")
              /\ ReturnedL2 = Err("Can't decode secret to base64")
              /\ DOMAIN ReturnedL2 = {"kind", "msg"}
              /\ pc = "done"
              /\ result = ReturnedL2
              /\ ~sent.some

\* a cancel with a secret of the standard alphabet ended with the error
C20_Witness ==
    /\ call.op = "cancel"
    /\ creds.some
    /\ creds.v.secret = <<"+", "/", "+", "/">>
    /\ pc = "done"
    /\ result.kind = "err"
    /\ result.msg = "Can't decode secret to base64"
    /\ ~sent.some

(***************************************************************************)
(* Callers that share one OrderBuilder.                                    *)
(***************************************************************************)
\* the frames of all callers: the one that runs and the suspended ones
Frames == {Frame} \cup {threads[t] : t \in DOMAIN threads}

\* the amounts the builder computes from the arguments of frame c alone
OwnAmounts(c) ==
    IF c.call.op = "create_order"
    THEN get_order_amounts(c.call.side, c.call.size, c.call.price,
                           RoundConfigOf(c.opts.tick_size.v).v)
    ELSE get_market_order_amounts(c.call.amount, c.price.v,
                                  RoundConfigOf(c.opts.tick_size.v).v)

\* C21: the operations of an OrderBuilder never change the builder and keep
\* what they compute in the call.  With several callers interleaved on one
\* builder, the builder stays as it was constructed and every caller's
\* amounts, order, and result are the ones of its own arguments: nothing of
\* another caller's call shows in them, and a call that has not finished has
\* returned nothing.
C21_CallsAreIndependent ==
    /\ builder = build_order_builder(SignerAddress, DefaultSignerConfig)
    /\ \A c \in Frames :
          /\ c.pc = "idle" =>
                /\ c.call.op = "none"
                /\ ~c.amounts.some /\ ~c.order.some /\ c.result = NoResult
          /\ c.pc \notin {"idle", "done"} => c.result = NoResult
          /\ c.amounts.some =>
                /\ c.call.op \in {"create_order", "create_market_order"}
                /\ ~OwnAmounts(c).panic
                /\ c.amounts.v = OwnAmounts(c).v
          /\ c.order.some =>
                /\ c.amounts.some
                /\ c.order.v.makerAmount = c.amounts.v.maker
                /\ c.order.v.takerAmount = c.amounts.v.taker
                /\ c.order.v.maker = builder.funder
                /\ c.order.v.signer = builder.signer
                /\ c.order.v.side =
                      SideTag(IF c.call.op = "create_order"
                              THEN c.call.side ELSE BUY)
          /\ (c.pc = "done" /\ c.result.kind = "ok"
              /\ c.call.op \in {"create_order", "create_market_order"}) =>
                /\ c.order.some
                /\ c.result.v.maker_amount.s = to_string(c.amounts.v.maker)
                /\ c.result.v.taker_amount.s = to_string(c.amounts.v.taker)
                /\ c.result.v.token_id.s = c.call.token_id
                /\ c.result.v.salt.n = c.order.v.salt
          /\ (c.pc = "done" /\ c.call.op = "calculate_market_price") =>
                LET p == calculate_market_price(c.call.asks, c.call.amount)
                IN  c.result = IF p.ok THEN Ok(p.price) ELSE Err(p.err)
          /\ c.rounded <= 1
          /\ c.signCalls <= 1

\* two callers are both inside a call, past the amounts, with different
\* amounts, and the one that runs is about to sign
C21_Witness ==
    /\ pc = "sign"
    /\ threads[1].pc \in {"contract", "build", "sign"}
    /\ amounts.some /\ threads[1].amounts.some
    /\ amounts # threads[1].amounts
    /\ call.op # threads[1].call.op

(***************************************************************************)
(* The options of an order built through the client.                      *)
(***************************************************************************)
\* the positions of a call after get_filled_order_options returned Ok
PastOptions ==
    {"get_order_book", "range_check", "amounts", "contract", "build", "sign"}

\* the errors of the builder for an option that is missing
BuilderOptionErrors ==
    { Err("Cannot create order without tick size"),
      Err("Cannot create order without neg_risk") }

\* C22: through ClobClient an order is built only after both options are
\* known.  Once get_filled_order_options has succeeded the tick size and the
\* neg-risk flag are both present, the caller's where the caller gave one;
\* a call whose tick-size or neg-risk fetch failed ended with that error
\* before the builder rounded or signed anything; and no call through the
\* client ends with the builder's "without tick size" or "without neg_risk"
\* error.
C22_OptionsKnownBeforeBuild ==
    call.op \in {"create_order", "create_market_order"} /\ call.via = "client" =>
        /\ pc \in PastOptions =>
              /\ opts.tick_size.some
              /\ opts.neg_risk.some
              /\ call.options.neg_risk.some =>
                    opts.neg_risk = call.options.neg_risk
              /\ call.options.tick_size.some =>
                    opts.tick_size = call.options.tick_size
        /\ (amounts.some \/ order.some \/ rounded > 0 \/ signCalls > 0) =>
              opts.tick_size.some /\ opts.neg_risk.some
        /\ result \notin BuilderOptionErrors
        /\ result \in { Err("Error fetching tick size"),
                        Err("Error fetching neg_risk") } =>
              /\ pc = "done"
              /\ rounded = 0 /\ signCalls = 0
              /\ ~amounts.some /\ ~order.some

\* a call that gave neither option is about to sign with both fetched
C22_Witness ==
    /\ call.op = "create_order" /\ call.via = "client"
    /\ ~call.options.tick_size.some /\ ~call.options.neg_risk.some
    /\ pc = "sign"
    /\ opts.tick_size.some /\ opts.neg_risk.some

(***************************************************************************)
(* The signer in a call that builds an order.                             *)
(***************************************************************************)
\* the errors of the steps that come before the signer
ErrorsBeforeSigning ==
    { Err("Error fetching tick size"),
      Err("Tick size is smaller than min_tick_size"),
      Err("Error fetching neg_risk"),
      Err("Error fetching book"),
      Err("Not enough liquidity"),
      Err("Price is not in range of tick_size"),
      Err("Cannot create order without tick size"),
      Err("Cannot create order without neg_risk"),
      Err("No contract found with given chain_id and neg_risk"),
      Err("Invalid exchange address"),
      Err("Invalid taker address"),
      Err("Incorrect tokenId format") }

\* the texts that spell an address
AddressTexts == UNION {e.texts : e \in AddressBook}

LimitProduct ==
    LET rc == RoundConfigOf(opts.tick_size.v).v
    IN  DecMul(round_dp_with_strategy(call.size, rc.size, "ToZero"),
               round_dp_with_strategy(call.price, rc.price,
                                      "MidpointTowardZero"))

\* a limit order whose amounts get_order_amounts went to compute
LimitAmountsComputed ==
    /\ call.op = "create_order"
    /\ rounded = 1

\* C24: in a limit order fix_amount_rounding never changes the value.  In
\* every entry of the table the price and size precisions add up to the
\* amount precision, so the product of the truncated size and the rounded
\* price has no more fractional digits than the amount precision, and
\* fix_amount_rounding returns it as it came, for BUY and for SELL.
C24_LimitRepairIsIdentity ==
    /\ \A e \in ROUNDING_CONFIG : e[2].price + e[2].size = e[2].amount
    /\ LimitAmountsComputed =>
          LET rc == RoundConfigOf(opts.tick_size.v).v
          IN  /\ LimitProduct.s <= rc.amount
              /\ fix_amount_rounding(LimitProduct, rc) = LimitProduct

\* a SELL whose product has as many fractional digits as the amount
\* precision allows
C24_Witness ==
    /\ LimitAmountsComputed
    /\ call.side = SELL
    /\ amounts.some
    /\ LimitProduct.s = RoundConfigOf(opts.tick_size.v).v.amount
    /\ LimitProduct.s = 6

(***************************************************************************)
(* The fields of the returned request against the order that was signed.  *)
(***************************************************************************)
\* C25: every field of a returned SignedOrderRequest denotes the value of
\* the corresponding field of the Order that was signed: salt and
\* signatureType are its numbers, maker, signer and taker spell its
\* addresses, side names its side, and tokenId, makerAmount, takerAmount,
\* expiration, nonce and feeRateBps are numerals of its numbers, whatever
\* token id the builder accepted.
C25_FieldsDenoteSigned ==
    result.kind = "ok" =>
        /\ result.v.salt.n = order.v.salt
        /\ Address_from_str(result.v.maker.s) = Some(order.v.maker)
        /\ Address_from_str(result.v.signer.s) = Some(order.v.signer)
        /\ Address_from_str(result.v.taker.s) = Some(order.v.taker)
        /\ Numeral(result.v.token_id.s) = Some(order.v.tokenId)
        /\ Numeral(result.v.maker_amount.s) = Some(order.v.makerAmount)
        /\ Numeral(result.v.taker_amount.s) = Some(order.v.takerAmount)
        /\ Numeral(result.v.expiration.s) = Some(order.v.expiration)
        /\ Numeral(result.v.nonce.s) = Some(order.v.nonce)
        /\ Numeral(result.v.fee_rate_bps.s) = Some(order.v.feeRateBps)
        /\ \E side \in {BUY, SELL} :
              result.v.side.s = as_str(side) /\ SideTag(side) = order.v.side
        /\ result.v.signature_type.n = order.v.signatureType

\* an order with tokenId 12 was signed and the request returned carries the
\* token id 1_2, which is no numeral
C25_Witness ==
    /\ result.kind = "ok"
    /\ signCalls = 1
    /\ call.token_id = <<"1", "_", "2">>
    /\ order.v.tokenId = NatDigits(12)
    /\ result.v.token_id.s = <<"1", "_", "2">>
    /\ ~Numeral(result.v.token_id.s).some

(***************************************************************************)
(* The timestamp of a header set.                                         *)
(***************************************************************************)
\* the timestamp header of the request that was sent
TimestampHeader == sent.v.headers[POLY_TS_HEADER]

\* C26: create_l1_headers and create_l2_headers read the clock once, and the
\* timestamp header is the rendering of that one reading, which is also the
\* timestamp the signature covers: the timestamp of the payload the wallet
\* signed for the wallet headers, and the leading part of the message under
\* the HMAC for the API-credential headers.  No header set carries a
\* timestamp other than the one signed.
C26_TimestampHeaderIsSigned ==
    /\ (L1Called /\ sent.some) =>
          /\ TimestampHeader = to_string(call.now)
          /\ sent.v.headers[POLY_SIG_HEADER].payload.timestamp = TimestampHeader
    /\ (L2Called /\ sent.some) =>
          /\ TimestampHeader = to_string(call.now)
          /\ SignedMessage
               = TimestampHeader \o call.method \o call.endpoint
                 \o (IF sent.v.body.some THEN sent.v.body.v ELSE << >>)
          /\ SubSeq(SignedMessage, 1, Len(TimestampHeader)) = TimestampHeader

\* a cancel_all request, which has no body, went out with the clock reading
\* 1700000000 in its header and at the head of its signed message
C26_Witness ==
    /\ call.op = "cancel_all"
    /\ sent.some
    /\ call.now = NatDigits(1700000000)
    /\ TimestampHeader = <<"1", "7", "0", "0", "0", "0", "0", "0", "0", "0">>
    /\ SignedMessage = TimestampHeader \o DELETE \o call.endpoint

(***************************************************************************)
(* The rounded price at the amount computation.                           *)
(***************************************************************************)
\* a call through the client stands at the amount computation, or is past
\* it, with a tick size the table has
AtAmountsSupported ==
    /\ call.op \in {"create_order", "create_market_order"}
    /\ call.via = "client"
    /\ pc = "amounts" \/ rounded = 1
    /\ opts.tick_size.some
    /\ HasRoundConfig(opts.tick_size.v)

\* the price as get_order_amounts and get_market_order_amounts round it
RoundedPrice ==
    round_dp_with_strategy(price.v, RoundConfigOf(opts.tick_size.v).v.price,
                           "MidpointTowardZero")

\* C27: when create_order or create_market_order of the client reaches the
\* amount computation with a supported tick size, the price rounded to the
\* price precision of that tick size lies between the tick size and one
\* minus the tick size, both included, so the price a market order's maker
\* amount is divided by is never zero.
C27_RoundedPriceInRange ==
    AtAmountsSupported =>
        /\ price.some
        /\ DecCmp(RoundedPrice, opts.tick_size.v) >= 0
        /\ DecCmp(RoundedPrice, DecSub(ONE, opts.tick_size.v)) <= 0
        /\ ~is_zero(RoundedPrice)

\* a limit order whose price the rounding changed had its amounts computed
C27_Witness ==
    /\ AtAmountsSupported
    /\ call.op = "create_order"
    /\ amounts.some
    /\ DecCmp(RoundedPrice, price.v) < 0
    /\ DecCmp(RoundedPrice, opts.tick_size.v) > 0

(***************************************************************************)
(* The tick size against the minimum of the market.                       *)
(***************************************************************************)
\* a call of the client is past resolve_tick_size
TickResolved ==
    /\ call.op \in {"create_order", "create_market_order"}
    /\ call.via = "client"
    /\ pc # "resolve_tick_size"

TickTooSmall == Err("Tick size is smaller than min_tick_size")

\* C29: resolve_tick_size fetches the minimum tick size of the market before
\* anything else; when the fetch fails the call ends with its error and no
\* tick size; otherwise it yields the minimum when the caller gave no tick
\* size, the caller's tick size when that is not below the minimum, and an
\* error, with nothing built, when it is below.  Every tick size that
\* reaches the range check and the builder is at least the minimum.
C29_TickAtLeastMinimum ==
    TickResolved =>
        /\ ~market_tick.some <=> result = Err("Error fetching tick size")
        /\ ~market_tick.some =>
              /\ pc = "done"
              /\ ~opts.tick_size.some
              /\ rounded = 0 /\ signCalls = 0
        /\ market_tick.some =>
              LET given == call.options.tick_size
                  min   == market_tick.v
              IN  /\ ~given.some => opts.tick_size = Some(min)
                  /\ given.some /\ DecCmp(given.v, min) >= 0 =>
                        opts.tick_size = given
                  /\ given.some /\ DecCmp(given.v, min) < 0 =>
                        /\ pc = "done"
                        /\ result = TickTooSmall
                        /\ ~opts.tick_size.some
                        /\ rounded = 0 /\ signCalls = 0
                  /\ result = TickTooSmall =>
                        given.some /\ DecCmp(given.v, min) < 0
        /\ opts.tick_size.some =>
              /\ market_tick.some
              /\ DecCmp(opts.tick_size.v, market_tick.v) >= 0

\* a caller's tick size above the minimum of the market reached the builder
C29_Witness ==
    /\ TickResolved
    /\ pc = "contract"
    /\ market_tick = Some(Dec(1, 4))
    /\ call.options.tick_size = Some(Dec(1, 2))
    /\ opts.tick_size = Some(Dec(1, 2))

(***************************************************************************)
(* The paging of get_orders and get_trades.                               *)
(***************************************************************************)
Paged == call.op \in {"get_orders", "get_trades"}

\* the cursor the call starts from
StartCursor == unwrap_or(call.next_cursor, INITIAL_CURSOR)

\* the cursor a request carries in its query
CursorOf(req) ==
    LET i == CHOOSE i \in 1..Len(req.query) : req.query[i].k = <<"n", "e", "x", "t", "_", "c", "u", "r", "s", "o", "r">>
    IN  req.query[i].v

\* C28: get_orders and get_trades page from the cursor they are given, the
\* initial cursor when none is given.  A call that starts at the end cursor
\* sends no request and returns the empty result.  A call that starts at
\* another cursor sends a request for that cursor first and one request for
\* every cursor a response returned, until the end cursor; it ends with the
\* data of the pages in the order of the requests, or, when a request
\* failed in transport, with an error and no data.
C28_PagesFollowCursors ==
    (Paged /\ creds.some /\ URL_SAFE_decode(creds.v.secret).some) =>
        /\ pc = "paging" =>
              /\ pager.requests = << >> => pager.cursor = StartCursor
              /\ \A i \in 1..Len(pager.requests) :
                    pager.requests[i].headers[POLY_TS_HEADER]
                        = to_string(call.now)
        /\ pc = "done" =>
              IF StartCursor = END_CURSOR
              THEN /\ result = Ok(<< >>)
                   /\ pager.requests = << >>
                   /\ ~sent.some
              ELSE /\ Len(pager.requests) >= 1
                   /\ CursorOf(pager.requests[1]) = StartCursor
                   /\ sent = Some(pager.requests[Len(pager.requests)])
                   /\ result.kind = "ok" =>
                         /\ pager.cursor = END_CURSOR
                         /\ result.v = pager.output
                   /\ result.kind = "err" => result = Err("request failed")

\* get_orders called without parameters and without a cursor, by a client
\* with credentials, ended with the error of the request builder and sent
\* nothing
C28_Witness ==
    /\ call.op = "get_orders"
    /\ call.params = None
    /\ call.next_cursor = None
    /\ creds.some /\ creds.v.secret = TEST_SECRET
    /\ pc = "done"
    /\ result = Err("builder error")
    /\ pager.cursor = INITIAL_CURSOR
    /\ pager.requests = << >>
    /\ ~sent.some

====
